---------------------------- MODULE Spec2Model ----------------------------
(***************************************************************************)
(* A model of dns-agent: the blocklist matcher (core/blocklist.py), the    *)
(* TTL/LRU response cache (core/cache.py), the per-query handler of the   *)
(* UDP server (core/dns_server.py) and the blocklist updater               *)
(* (core/blocklist_updater.py, core/auto_updater.py).                      *)
(*                                                                         *)
(* Text is modelled as a sequence of one-character strings, so that        *)
(* lower-casing, stripping and suffix tests are computed, not assumed.     *)
(***************************************************************************)
EXTENDS Integers, Sequences, FiniteSets, TLC

VARIABLES
    blocked_domains,      \* BlocklistManager.blocked_domains
    wildcard_domains,     \* BlocklistManager.wildcard_domains
    whitelist_domains,    \* BlocklistManager.whitelist_domains
    whitelist_wildcards,  \* BlocklistManager.whitelist_wildcards
    bl_stats,             \* BlocklistManager.stats
    lastCheck,            \* the latest is_blocked call: its argument and result
    max_size,             \* DNSCache.max_size
    min_ttl,              \* DNSCache.min_ttl
    max_ttl,              \* DNSCache.max_ttl
    cache,                \* DNSCache._cache: the entries, oldest first
    cache_stats,          \* DNSCache.stats
    now,                  \* datetime.now(), in seconds
    lastOp,               \* the DNSCache call that has just returned
    recency,              \* the cache keys ever used, least recently used first
    stats,                \* DNSServer.stats
    handlers,             \* the _handle_query tasks handed to the worker pool
    bl_lock,              \* BlocklistManager._lock: the thread that holds it
    loading,              \* the load() call in progress, statement by statement
    calls,                \* the is_blocked calls of the worker threads
    cache_dir,            \* BlocklistUpdater.cache_dir: the file of each source
    output_file,          \* the merged blocklist file the matcher loads
    bu_stats,             \* BlocklistUpdater.stats
    au_stats,             \* AutoUpdater.stats
    tick,                 \* the _perform_update call in progress
    started,              \* for each task, the loads done when it started and
                          \* when it called is_blocked
    reloads,              \* the reloads the update hook has done
    au_running,           \* AutoUpdater.running
    stop_event,           \* AutoUpdater.stop_event: whether it is set
    au_thread,            \* AutoUpdater.thread: the latest loop thread, 0 if None
    au_threads,           \* the threads that run code of the AutoUpdater
    au_calls,             \* the calls made so far: start, trigger_update_now,
                          \* and the waits that have timed out
    merging,              \* the merge_blocklists call that is writing the file
    running,              \* DNSServer.running
    shutdown_event,       \* DNSServer.shutdown_event: whether it is set
    main,                 \* the main thread: where it is in start(), and whether
                          \* the signal handler of main.py has run
    serve,                \* _serve: the datagram just received, the exceptions
                          \* caught, and what had happened at each submit
    dns,                  \* the NetworkDNSManager and the DNS setting of the host
    parsed                \* a hosts-format text and what the loader of the
                          \* matcher and the parser of the updater make of it

matcherVars == <<blocked_domains, wildcard_domains, whitelist_domains,
                 whitelist_wildcards, bl_stats, lastCheck>>

cacheVars == <<max_size, min_ttl, max_ttl, cache, cache_stats, now, lastOp,
               recency>>

serverVars == <<stats, handlers>>

swapVars == <<bl_lock, loading, calls>>

updaterVars == <<cache_dir, output_file, bu_stats, au_stats, tick, started, reloads>>

\* the variables of the reload and of the updater
schedVars == <<au_running, stop_event, au_thread, au_threads, au_calls>>

serveVars == <<running, shutdown_event, main, serve, dns>>

lifeVars == <<schedVars, merging, serveVars, parsed>>

restVars == <<swapVars, updaterVars, lifeVars>>

vars == <<matcherVars, cacheVars, serverVars, restVars>>

None == "None"

\* an optional value: Nothing where the code has None, Some(v) otherwise
Nothing == <<>>

Some(v) == <<v>>

-----------------------------------------------------------------------------
(* Bounds of the model *)

\* longest name handed to is_blocked
MaxNameLen == 3
\* is_blocked calls in one behaviour (stats['total_checks'] is unbounded)
MaxChecks == 1
\* load() calls in one behaviour (stats['load_count'] is unbounded)
MaxLoads == 2
\* entries add_domain() may count up to (stats['total_blocks'] is unbounded)
MaxBlocks == 2

\* get() calls in one behaviour (stats['hits'] + stats['misses'] is unbounded)
MaxGets == 1
\* store() calls in one behaviour (stats['stores'] is unbounded)
MaxStores == 3
\* the last second of the clock
MaxTime == 2

\* datagrams received in one behaviour
MaxQueries == 2

\* update ticks in one behaviour
MaxTicks == 1
\* the number of update ticks of the updater on its own
MaxUpdates == 2
\* AutoUpdater.start() calls in one behaviour
MaxStarts == 2
\* trigger_update_now() calls in one behaviour
MaxTriggers == 1
\* worker threads of the pool (max_workers)
MaxWorkers == 1
\* exceptions of recvfrom in one behaviour
MaxErrors == 1
\* lines of a hosts-format text
MaxLines == 2

-----------------------------------------------------------------------------
(* Python str methods, on sequences of characters *)

\* characters of the names handed to is_blocked
NameChars == {"a", "A", "."}

\* str.lower() on one character of the model's alphabet
LowerChar(c) ==
    CASE c = "A" -> "a"
      [] c = "B" -> "b"
      [] OTHER -> c

lower(s) == [i \in 1..Len(s) |-> LowerChar(s[i])]

RECURSIVE rstrip_dot(_)
rstrip_dot(s) ==
    IF Len(s) > 0 /\ s[Len(s)] = "."
    THEN rstrip_dot(SubSeq(s, 1, Len(s) - 1))
    ELSE s

endswith(s, suffix) ==
    /\ Len(suffix) <= Len(s)
    /\ SubSeq(s, Len(s) - Len(suffix) + 1, Len(s)) = suffix

startswith(s, prefix) ==
    /\ Len(prefix) <= Len(s)
    /\ SubSeq(s, 1, Len(prefix)) = prefix

\* a normal form that keeps the letter case
normalize_keep_case(domain) == rstrip_dot(domain)

\* domain.lower().rstrip('.')
normalize(domain) == rstrip_dot(lower(domain))

-----------------------------------------------------------------------------
(* BlocklistManager: matching *)

\* a matcher that tests the suffix only, without the label boundary
_check_wildcard_match_suffix_only(domain, wildcard_set) ==
    \E wildcard \in wildcard_set : endswith(domain, wildcard)

_check_wildcard_match(domain, wildcard_set) ==
    \E wildcard \in wildcard_set :
        /\ endswith(domain, wildcard)
        /\ \/ domain = wildcard
           \/ endswith(domain, <<".">> \o wildcard)

_is_whitelisted(domain) ==
    \/ domain \in whitelist_domains
    \/ _check_wildcard_match(domain, whitelist_wildcards)

\* a matcher that consults the block sets before the whitelist
is_blocked_branch_block_first(domain) ==
    LET d == normalize(domain) IN
    IF d \in blocked_domains THEN "exact"
    ELSE IF _check_wildcard_match(d, wildcard_domains) THEN "wildcard"
    ELSE IF _is_whitelisted(d) THEN "whitelisted"
    ELSE "allowed"

\* the branch is_blocked takes: "whitelisted", "exact", "wildcard" or "allowed"
is_blocked_branch(domain) ==
    LET d == normalize(domain) IN
    IF _is_whitelisted(d) THEN "whitelisted"
    ELSE IF d \in blocked_domains THEN "exact"
    ELSE IF _check_wildcard_match(d, wildcard_domains) THEN "wildcard"
    ELSE "allowed"

\* the value is_blocked returns
is_blocked(domain) == is_blocked_branch(domain) \in {"exact", "wildcard"}

-----------------------------------------------------------------------------
(* BlocklistManager: the loader *)

Whitespace == {" "}

RECURSIVE lstrip(_)
lstrip(s) ==
    IF Len(s) > 0 /\ s[1] \in Whitespace THEN lstrip(Tail(s)) ELSE s

RECURSIVE rstrip(_)
rstrip(s) ==
    IF Len(s) > 0 /\ s[Len(s)] \in Whitespace
    THEN rstrip(SubSeq(s, 1, Len(s) - 1))
    ELSE s

\* str.strip()
strip(s) == lstrip(rstrip(s))

\* s.split(c): the pieces between the occurrences of c, empty pieces kept
RECURSIVE split_on(_, _)
split_on(s, c) ==
    IF \A i \in 1..Len(s) : s[i] # c
    THEN <<s>>
    ELSE LET i == CHOOSE k \in 1..Len(s) :
                      s[k] = c /\ \A j \in 1..(k - 1) : s[j] # c
         IN  <<SubSeq(s, 1, i - 1)>> \o split_on(SubSeq(s, i + 1, Len(s)), c)

NonEmpty(t) == Len(t) > 0

\* str.split(): the whitespace-separated tokens
split(s) == SelectSeq(split_on(s, " "), NonEmpty)

\* \d of the patterns
Digits == {"0", "1", "2", "3", "4", "5", "6", "7", "8", "9"}

\* [a-z0-9] of the validation pattern
AlnumChars ==
    {"a", "b", "c", "d", "e", "f", "g", "h", "i", "j", "k", "l", "m", "n", "o",
     "p", "q", "r", "s", "t", "u", "v", "w", "x", "y", "z"} \cup Digits

\* the longest label the validation pattern accepts: 1 + {0,61} + 1
MaxLabelLen == 63

\* [a-z0-9](?:[a-z0-9-]{0,61}[a-z0-9])?
IsLabel(l) ==
    /\ Len(l) >= 1
    /\ Len(l) <= MaxLabelLen
    /\ l[1] \in AlnumChars
    /\ l[Len(l)] \in AlnumChars
    /\ \A i \in 1..Len(l) : l[i] \in AlnumChars \cup {"-"}

_is_valid_domain(domain) ==
    IF Len(domain) = 0 THEN FALSE
    ELSE LET check_domain == IF startswith(domain, <<"*", ".">>)
                             THEN SubSeq(domain, 3, Len(domain))
                             ELSE domain
             labels == split_on(check_domain, ".")
         IN  \A i \in 1..Len(labels) : IsLabel(labels[i])

\* the cleaned domain of a line, or the empty text where the code returns None
_parse_domain_line(line0) ==
    LET line1 == strip(line0) IN
    IF \/ Len(line1) = 0
       \/ startswith(line1, <<"#">>)
       \/ startswith(line1, <<"/", "/">>)
    THEN <<>>
    ELSE LET parts == split(line1)
             line2 == IF /\ \/ startswith(line1, <<"0", ".", "0", ".", "0", ".", "0">>)
                             \/ startswith(line1, <<"1", "2", "7", ".", "0", ".", "0", ".", "1">>)
                         /\ Len(parts) >= 2
                      THEN parts[2]
                      ELSE line1
             domain == rstrip_dot(lower(line2))
         IN  IF _is_valid_domain(domain) THEN domain ELSE <<>>

\* A file on disk: absent, or its lines; fail_at = k >= 0 makes the read raise
\* an I/O error after k lines were read, fail_at = -1 reads to the end.
File(ls, k) == [exists |-> TRUE, lines |-> ls, fail_at |-> k]

NoFile == [exists |-> FALSE, lines |-> <<>>, fail_at |-> -1]

\* the domains of the lines read before the end of the file or the error
DomainsRead(file) ==
    LET n == IF file.fail_at < 0 THEN Len(file.lines) ELSE file.fail_at
    IN  {_parse_domain_line(file.lines[i]) : i \in 1..n} \ {<<>>}

IsWildcardLine(d) == startswith(d, <<"*", ".">>)

\* the sets after _load_blocklist (which adds to exact0 and wild0) and its
\* return value
_load_blocklist(file, exact0, wild0) ==
    IF ~file.exists
    THEN [exact |-> exact0, wild |-> wild0, count |-> 0]
    ELSE LET doms  == DomainsRead(file)
             exact == exact0 \cup {d \in doms : ~IsWildcardLine(d)}
             wild  == wild0 \cup {SubSeq(d, 3, Len(d)) :
                                    d \in {e \in doms : IsWildcardLine(e)}}
         IN  [exact |-> exact, wild |-> wild,
              count |-> IF file.fail_at < 0
                        THEN Cardinality(exact) + Cardinality(wild)
                        ELSE 0]

_load_whitelist(file, exact0, wild0) ==
    IF ~file.exists
    THEN [exact |-> exact0, wild |-> wild0, count |-> 0]
    ELSE LET doms  == DomainsRead(file)
             exact == exact0 \cup {d \in doms : ~IsWildcardLine(d)}
             wild  == wild0 \cup {SubSeq(d, 3, Len(d)) :
                                    d \in {e \in doms : IsWildcardLine(e)}}
         IN  [exact |-> exact, wild |-> wild,
              count |-> IF file.fail_at < 0
                        THEN Cardinality(exact) + Cardinality(wild)
                        ELSE 0]

\* the four sets of the matcher
Sets ==
    [blocked_domains |-> blocked_domains, wildcard_domains |-> wildcard_domains,
     whitelist_domains |-> whitelist_domains,
     whitelist_wildcards |-> whitelist_wildcards]

\* no is_blocked call since the sets were last written
NoCheck ==
    [called |-> FALSE, domain |-> <<>>, result |-> FALSE,
     before |-> [blocked_domains |-> {}, wildcard_domains |-> {},
                 whitelist_domains |-> {}, whitelist_wildcards |-> {}]]

\* BlocklistManager.load(): clear the four sets, read both files, update stats
load(blocklist_file, whitelist_file) ==
    LET b == _load_blocklist(blocklist_file, {}, {})
        w == _load_whitelist(whitelist_file, {}, {})
    IN  /\ blocked_domains' = b.exact
        /\ wildcard_domains' = b.wild
        /\ whitelist_domains' = w.exact
        /\ whitelist_wildcards' = w.wild
        /\ bl_stats' = [bl_stats EXCEPT !.total_blocks = b.count,
                                         !.last_loaded = "datetime",
                                         !.load_count = @ + 1]
        /\ lastCheck' = NoCheck

add_domain(domain, is_wildcard) ==
    LET d == normalize(domain) IN
    /\ IF is_wildcard
       THEN /\ wildcard_domains' = wildcard_domains \cup {d}
            /\ UNCHANGED blocked_domains
       ELSE /\ blocked_domains' = blocked_domains \cup {d}
            /\ UNCHANGED wildcard_domains
    /\ bl_stats' = [bl_stats EXCEPT !.total_blocks = @ + 1]
    /\ lastCheck' = NoCheck
    /\ UNCHANGED <<whitelist_domains, whitelist_wildcards>>

remove_domain(domain) ==
    LET d == normalize(domain)
        removed == d \in blocked_domains \/ d \in wildcard_domains
    IN  /\ blocked_domains' = blocked_domains \ {d}
        /\ wildcard_domains' = wildcard_domains \ {d}
        /\ bl_stats' = [bl_stats EXCEPT
                            !.total_blocks = IF removed THEN @ - 1 ELSE @]
        /\ lastCheck' = NoCheck
        /\ UNCHANGED <<whitelist_domains, whitelist_wildcards>>

\* the stats after is_blocked(domain)
is_blocked_stats(domain) ==
    LET branch == is_blocked_branch(domain) IN
    [bl_stats EXCEPT
        !.total_checks = @ + 1,
        !.whitelisted_count = IF branch = "whitelisted" THEN @ + 1 ELSE @,
        !.allowed_count = IF branch \in {"whitelisted", "allowed"} THEN @ + 1 ELSE @,
        !.blocked_count = IF branch \in {"exact", "wildcard"} THEN @ + 1 ELSE @]

-----------------------------------------------------------------------------
(* DNSCache *)

\* the entry CacheEntry(response, ttl) creates at the current time
CacheEntry(response, ttl) ==
    [response |-> response, ttl |-> ttl, created_at |-> now,
     expires_at |-> now + ttl]

\* an expiry test that still serves the entry in its last second
is_expired_strict(entry) == now > entry.expires_at

is_expired(entry) == now >= entry.expires_at

Min(a, b) == IF a < b THEN a ELSE b

Max(a, b) == IF a > b THEN a ELSE b

\* the least TTL of the answer RRsets, min_ttl when there is none
_extract_ttl(response) ==
    IF Len(response.answer) = 0
    THEN min_ttl
    ELSE LET ttls == {response.answer[i].ttl : i \in 1..Len(response.answer)}
         IN  CHOOSE t \in ttls : \A u \in ttls : t <= u

\* the keys of an OrderedDict, in order
Keys(c) == [i \in 1..Len(c) |-> c[i].key]

KeySet(c) == {c[i].key : i \in 1..Len(c)}

HasKey(c, key) == key \in KeySet(c)

\* c[key]
Lookup(c, key) == c[CHOOSE i \in 1..Len(c) : c[i].key = key].entry

\* del c[key]
Delete(c, key) == SelectSeq(c, LAMBDA item : item.key # key)

\* c[key] = entry for a key that c does not hold: appended at the end
Insert(c, key, entry) == Append(c, [key |-> key, entry |-> entry])

\* c.move_to_end(key)
MoveToEnd(c, key) ==
    Delete(c, key) \o SelectSeq(c, LAMBDA item : item.key = key)

\* c after c.popitem(last=False)
PopFirst(c) == Tail(c)

\* a key of the name as it was passed
CacheKey_as_passed(domain, qtype) == <<domain, qtype>>

CacheKey(domain, qtype) == <<normalize(domain), qtype>>

NoOp == [op |-> "none"]

\* a get that leaves the entry where it is on a hit
get_cache_no_promote(domain, qtype) ==
    LET key == CacheKey(domain, qtype) IN
    IF ~HasKey(cache, key) THEN cache
    ELSE IF is_expired(Lookup(cache, key)) THEN Delete(cache, key)
    ELSE cache

\* the cache after get(domain, qtype)
get_cache(domain, qtype) ==
    LET key == CacheKey(domain, qtype) IN
    IF ~HasKey(cache, key) THEN cache
    ELSE IF is_expired(Lookup(cache, key)) THEN Delete(cache, key)
    ELSE MoveToEnd(cache, key)

\* what get(domain, qtype) returns: the response, or Nothing for None
get_result(domain, qtype) ==
    LET key == CacheKey(domain, qtype) IN
    IF ~HasKey(cache, key) THEN Nothing
    ELSE IF is_expired(Lookup(cache, key)) THEN Nothing
    ELSE Some(Lookup(cache, key).response)

get_stats(domain, qtype) ==
    LET key == CacheKey(domain, qtype) IN
    IF ~HasKey(cache, key)
    THEN [cache_stats EXCEPT !.misses = @ + 1]
    ELSE IF is_expired(Lookup(cache, key))
    THEN [cache_stats EXCEPT !.expirations = @ + 1, !.misses = @ + 1]
    ELSE [cache_stats EXCEPT !.hits = @ + 1]

\* a store that enforces the upper TTL limit only
store_ttl_no_min(response, ttl) ==
    LET t == IF ttl = Nothing THEN _extract_ttl(response) ELSE ttl[1]
    IN  Min(t, max_ttl)

\* the TTL store() gives the entry
store_ttl(response, ttl) ==
    LET t == IF ttl = Nothing THEN _extract_ttl(response) ELSE ttl[1]
    IN  Max(min_ttl, Min(t, max_ttl))

\* a store that never evicts
store_cache_no_evict(domain, qtype, response, ttl) ==
    LET key   == CacheKey(domain, qtype)
        entry == CacheEntry(response, store_ttl(response, ttl))
        c1    == IF HasKey(cache, key) THEN Delete(cache, key) ELSE cache
    IN  MoveToEnd(Insert(c1, key, entry), key)

\* the cache after store(domain, qtype, response, ttl)
store_cache(domain, qtype, response, ttl) ==
    LET key   == CacheKey(domain, qtype)
        entry == CacheEntry(response, store_ttl(response, ttl))
        c1    == IF HasKey(cache, key) THEN Delete(cache, key) ELSE cache
        c2    == MoveToEnd(Insert(c1, key, entry), key)
    IN  IF Len(c2) > max_size THEN PopFirst(c2) ELSE c2

store_stats(domain, qtype) ==
    LET key == CacheKey(domain, qtype)
        n   == IF HasKey(cache, key) THEN Len(cache) ELSE Len(cache) + 1
    IN  [cache_stats EXCEPT
            !.evictions = IF n > max_size THEN @ + 1 ELSE @,
            !.stores = @ + 1]

\* the keys of the expired entries, as cleanup_expired collects them
expired_keys == {cache[i].key : i \in {j \in 1..Len(cache) : is_expired(cache[j].entry)}}

\* a use of key makes it the most recently used
Touch(r, key) == SelectSeq(r, LAMBDA k : k # key) \o <<key>>

-----------------------------------------------------------------------------
(* The matcher on its own: load, add_domain, remove_domain and is_blocked   *)
(* called in any order (each runs under BlocklistManager._lock).            *)

\* the names handed to is_blocked: every text of dots and letters up to
\* MaxNameLen, in lower case and in upper case
LowerNames == UNION {[1..n -> NameChars] : n \in 0..MaxNameLen}

Shout(s) == [i \in 1..Len(s) |-> IF s[i] = "a" THEN "A" ELSE s[i]]

RawNames == LowerNames \cup {Shout(n) : n \in LowerNames}

\* the blocklist files the loader may find on disk
BlocklistFiles ==
    { NoFile,
      File(<< <<"a", ".", "a">> >>, -1),
      File(<< <<"#", " ", "a">>, <<"*", ".", "a", ".", "a">> >>, -1),
      File(<< <<"0", ".", "0", ".", "0", ".", "0", " ", "a", "a", ".", "a">>,
              <<"*", ".", "a">> >>, -1),
      File(<< <<"A", ".">>, <<"a", ".", ".", "a">> >>, -1),
      File(<< <<"*", ".", "a", "a">>, <<"a", ".", "a">> >>, 1) }

\* the whitelist files the loader may find on disk
WhitelistFiles ==
    { NoFile,
      File(<< <<"a", ".", "a">> >>, -1),
      File(<< <<"*", ".", "a", ".", "a">> >>, -1),
      File(<< <<"*", ".", "a">>, <<" ", "a", "a", ".", "a", " ">> >>, -1),
      File(<< <<"a", ".", "a", ".", "a">>, <<"/", "/", "a">> >>, -1),
      File(<< <<"a">> >>, 0) }

\* the names handed to add_domain and remove_domain
EditNames == { <<"a">>, <<"A", ".", "A", ".">>, <<"a", "a">> }

InitMatcher ==
    /\ blocked_domains = {}
    /\ wildcard_domains = {}
    /\ whitelist_domains = {}
    /\ whitelist_wildcards = {}
    /\ bl_stats = [total_blocks |-> 0, total_checks |-> 0, blocked_count |-> 0,
                   allowed_count |-> 0, whitelisted_count |-> 0,
                   last_loaded |-> None, load_count |-> 0]
    /\ lastCheck = NoCheck

Load ==
    /\ bl_stats.load_count < MaxLoads
    /\ \E bf \in BlocklistFiles, wf \in WhitelistFiles : load(bf, wf)

AddDomain ==
    /\ bl_stats.total_blocks < MaxBlocks
    /\ \E d \in EditNames, w \in BOOLEAN : add_domain(d, w)

RemoveDomain == \E d \in EditNames : remove_domain(d)

IsBlocked ==
    /\ bl_stats.total_checks < MaxChecks
    /\ \E d \in RawNames :
          /\ lastCheck' = [called |-> TRUE, domain |-> d, result |-> is_blocked(d),
                            before |-> Sets]
          /\ bl_stats' = is_blocked_stats(d)
          /\ UNCHANGED <<blocked_domains, wildcard_domains,
                         whitelist_domains, whitelist_wildcards>>

\* start-up load, reloads and is_blocked calls
NextMatcher ==
    \/ Load /\ UNCHANGED <<cacheVars, serverVars, restVars>>
    \/ IsBlocked /\ UNCHANGED <<cacheVars, serverVars, restVars>>

\* the same with the run-time edits of the block sets
NextLoader ==
    \/ Load /\ UNCHANGED <<cacheVars, serverVars, restVars>>
    \/ AddDomain /\ UNCHANGED <<cacheVars, serverVars, restVars>>
    \/ RemoveDomain /\ UNCHANGED <<cacheVars, serverVars, restVars>>
    \/ IsBlocked /\ UNCHANGED <<cacheVars, serverVars, restVars>>


-----------------------------------------------------------------------------
(* The cache on its own: get, store, remove, clear and cleanup_expired      *)
(* called in any order while time passes (each runs under DNSCache._lock).  *)

\* an answer RRset: only its TTL matters to the cache
RRset(ttl, rdata) == [ttl |-> ttl, rdata |-> rdata]

\* the responses handed to store
RespShort ==
    [id |-> 1, rcode |-> "NOERROR", answer |-> <<RRset(5, "r0"), RRset(0, "r1")>>]

RespLong ==
    [id |-> 2, rcode |-> "NOERROR", answer |-> <<RRset(9, "r2"), RRset(2, "r3")>>]

RespEmpty == [id |-> 3, rcode |-> "NOERROR", answer |-> <<>>]

\* (response, ttl) of a store call; ttl = Nothing takes the TTL from the response
StoreArgs ==
    { [response |-> RespShort, ttl |-> Nothing],
      [response |-> RespShort, ttl |-> Some(9)] }

\* the same with more TTLs: below min_ttl, between the limits, above max_ttl,
\* from the response and passed explicitly, and a response without answers
TtlStoreArgs ==
    { [response |-> RespShort, ttl |-> Nothing],
      [response |-> RespLong, ttl |-> Nothing],
      [response |-> RespEmpty, ttl |-> Nothing],
      [response |-> RespLong, ttl |-> Some(0)],
      [response |-> RespShort, ttl |-> Some(2)],
      [response |-> RespShort, ttl |-> Some(9)] }

\* (domain, qtype) of a call: three keys
CacheQueries ==
    { [domain |-> <<"a">>, qtype |-> "A"],
      [domain |-> <<"B", ".">>, qtype |-> "A"],
      [domain |-> <<"a">>, qtype |-> "AAAA"] }

\* (domain, qtype) of a call: two keys, the first two name the same key
TtlQueries ==
    { [domain |-> <<"a">>, qtype |-> "A"],
      [domain |-> <<"A", ".">>, qtype |-> "A"],
      [domain |-> <<"b">>, qtype |-> "A"] }

\* DNSCache(max_size, min_ttl, max_ttl)
CacheConfigs ==
    { [max_size |-> 2, min_ttl |-> 1, max_ttl |-> 3],
      [max_size |-> 1, min_ttl |-> 1, max_ttl |-> 3] }

\* the same with equal limits and with min_ttl > max_ttl
TtlConfigs ==
    { [max_size |-> 1, min_ttl |-> 1, max_ttl |-> 3],
      [max_size |-> 1, min_ttl |-> 2, max_ttl |-> 2],
      [max_size |-> 1, min_ttl |-> 3, max_ttl |-> 1] }

\* the state after DNSCache(max_size, min_ttl, max_ttl)
InitCacheWith(configs) ==
    /\ \E cfg \in configs :
          /\ max_size = cfg.max_size
          /\ min_ttl = cfg.min_ttl
          /\ max_ttl = cfg.max_ttl
    /\ cache = <<>>
    /\ cache_stats = [hits |-> 0, misses |-> 0, evictions |-> 0,
                      expirations |-> 0, stores |-> 0]
    /\ now = 0
    /\ lastOp = NoOp
    /\ recency = <<>>

Get(queries) ==
    /\ cache_stats.hits + cache_stats.misses < MaxGets
    /\ \E q \in queries :
          /\ cache' = get_cache(q.domain, q.qtype)
          /\ cache_stats' = get_stats(q.domain, q.qtype)
          /\ lastOp' = [op |-> "get", domain |-> q.domain, qtype |-> q.qtype,
                        result |-> get_result(q.domain, q.qtype),
                        removed |-> KeySet(cache)
                                      \ KeySet(get_cache(q.domain, q.qtype))]
          /\ recency' = IF get_result(q.domain, q.qtype) # Nothing
                        THEN Touch(recency, CacheKey(q.domain, q.qtype))
                        ELSE recency
    /\ UNCHANGED <<max_size, min_ttl, max_ttl, now>>

Store(queries, args) ==
    /\ cache_stats.stores < MaxStores
    /\ \E q \in queries, a \in args :
          /\ cache' = store_cache(q.domain, q.qtype, a.response, a.ttl)
          /\ cache_stats' = store_stats(q.domain, q.qtype)
          /\ lastOp' = [op |-> "store", domain |-> q.domain, qtype |-> q.qtype,
                        response |-> a.response, ttl |-> a.ttl,
                        evicted |->
                            (KeySet(cache) \cup {CacheKey(q.domain, q.qtype)})
                              \ KeySet(store_cache(q.domain, q.qtype,
                                                   a.response, a.ttl))]
          /\ recency' = Touch(recency, CacheKey(q.domain, q.qtype))
    /\ UNCHANGED <<max_size, min_ttl, max_ttl, now>>

Remove(queries) ==
    /\ \E q \in queries :
          /\ cache' = Delete(cache, CacheKey(q.domain, q.qtype))
          /\ lastOp' = [op |-> "remove", domain |-> q.domain, qtype |-> q.qtype,
                        result |-> HasKey(cache, CacheKey(q.domain, q.qtype))]
    /\ UNCHANGED <<max_size, min_ttl, max_ttl, cache_stats, now, recency>>

Clear ==
    /\ cache' = <<>>
    /\ lastOp' = [op |-> "clear"]
    /\ UNCHANGED <<max_size, min_ttl, max_ttl, cache_stats, now, recency>>

CleanupExpired ==
    /\ cache' = SelectSeq(cache, LAMBDA item : item.key \notin expired_keys)
    /\ cache_stats' = [cache_stats EXCEPT
                          !.expirations = @ + Cardinality(expired_keys)]
    /\ lastOp' = [op |-> "cleanup_expired", result |-> Cardinality(expired_keys)]
    /\ UNCHANGED <<max_size, min_ttl, max_ttl, now, recency>>

\* time passes
Tick ==
    /\ now < MaxTime
    /\ now' = now + 1
    /\ lastOp' = NoOp
    /\ UNCHANGED <<max_size, min_ttl, max_ttl, cache, cache_stats, recency>>

NextCache ==
    \/ Get(CacheQueries) /\ UNCHANGED <<matcherVars, serverVars, restVars>>
    \/ Store(CacheQueries, StoreArgs) /\ UNCHANGED <<matcherVars, serverVars, restVars>>
    \/ Remove(CacheQueries) /\ UNCHANGED <<matcherVars, serverVars, restVars>>
    \/ Clear /\ UNCHANGED <<matcherVars, serverVars, restVars>>
    \/ CleanupExpired /\ UNCHANGED <<matcherVars, serverVars, restVars>>
    \/ Tick /\ UNCHANGED <<matcherVars, serverVars, restVars>>

\* the same calls over fewer keys and more TTLs
NextCacheTtl ==
    \/ Get(TtlQueries) /\ UNCHANGED <<matcherVars, serverVars, restVars>>
    \/ Store(TtlQueries, TtlStoreArgs) /\ UNCHANGED <<matcherVars, serverVars, restVars>>
    \/ Remove(TtlQueries) /\ UNCHANGED <<matcherVars, serverVars, restVars>>
    \/ Clear /\ UNCHANGED <<matcherVars, serverVars, restVars>>
    \/ CleanupExpired /\ UNCHANGED <<matcherVars, serverVars, restVars>>
    \/ Tick /\ UNCHANGED <<matcherVars, serverVars, restVars>>

\* the spellings store, get and remove are called with: one name in three
\* spellings and under two types
KeyStoreQueries ==
    { [domain |-> <<"A", ".">>, qtype |-> "A"],
      [domain |-> <<"a">>, qtype |-> "AAAA"] }

KeyGetQueries ==
    { [domain |-> <<"a">>, qtype |-> "A"],
      [domain |-> <<"a", ".">>, qtype |-> "AAAA"],
      [domain |-> <<"b">>, qtype |-> "A"] }

KeyRemoveQueries ==
    { [domain |-> <<"A">>, qtype |-> "A"],
      [domain |-> <<"a", ".", ".">>, qtype |-> "AAAA"] }

KeyStoreArgs ==
    { [response |-> RespShort, ttl |-> Nothing],
      [response |-> RespLong, ttl |-> Nothing] }

\* the calls with the spellings above
NextCacheKeys ==
    \/ Get(KeyGetQueries) /\ UNCHANGED <<matcherVars, serverVars, restVars>>
    \/ Store(KeyStoreQueries, KeyStoreArgs)
          /\ UNCHANGED <<matcherVars, serverVars, restVars>>
    \/ Remove(KeyRemoveQueries) /\ UNCHANGED <<matcherVars, serverVars, restVars>>
    \/ Tick /\ UNCHANGED <<matcherVars, serverVars, restVars>>

-----------------------------------------------------------------------------
(* DNS messages (dnspython) *)

\* a question: name as question.name.to_text() gives it, and the RR type
Question(name, qtype) == [name |-> name, qtype |-> qtype]

\* a query as dns.message.from_wire parses it; flags holds the header bits
\* and the rcode, as Message.flags does
QueryMsg(id, questions) ==
    [id |-> id, flags |-> [bits |-> {"RD"}, rcode |-> "NOERROR"],
     question |-> questions, answer |-> <<>>, authority |-> <<>>,
     additional |-> <<>>]

\* dns.message.make_response(query)
make_response(query) ==
    [id |-> query.id,
     flags |-> [bits |-> {"QR"} \cup (query.flags.bits \cap {"RD"}),
                rcode |-> "NOERROR"],
     question |-> query.question, answer |-> <<>>, authority |-> <<>>,
     additional |-> <<>>]

\* response.set_rcode(rcode)
set_rcode(response, rcode) == [response EXCEPT !.flags.rcode = rcode]

\* a datagram: the bytes of a message, or bytes from_wire cannot parse
Wire(msg) == [parses |-> TRUE, msg |-> msg]

Malformed == [parses |-> FALSE, msg |-> QueryMsg(0, <<>>)]

\* a reply the upstream resolver gives to query: dns.query.udp accepts only a
\* response to the query (same id, same question)
UpstreamAnswer(query, rcode, answer) ==
    [id |-> query.id,
     flags |-> [bits |-> {"QR", "RD", "RA"}, rcode |-> rcode],
     question |-> query.question, answer |-> answer,
     authority |-> <<"ns">>, additional |-> <<"glue">>]

\* the outcomes of dns.query.udp(query, upstream_dns, timeout=5.0): a
\* response, or an exception
\* a negative response that carries records in its answer section, as the
\* upstream sends for an alias whose target does not exist
NegativeWithAnswer(query) ==
    [raised |-> "no",
     response |-> UpstreamAnswer(query, "NXDOMAIN", <<RRset(1, "cname")>>)]

UpstreamOutcomes(query) ==
    { [raised |-> "no",
       response |-> UpstreamAnswer(query, "NOERROR", <<RRset(1, "r1")>>)],
      [raised |-> "no",
       response |-> UpstreamAnswer(query, "NXDOMAIN", <<>>)],
      [raised |-> "Timeout", response |-> make_response(query)],
      [raised |-> "OSError", response |-> make_response(query)] }

-----------------------------------------------------------------------------
(* DNSServer: the per-query handler, one task per received datagram. Each  *)
(* action is the code a task runs around one lock: stats_lock, the         *)
(* matcher's lock or the cache's lock. The datagrams are queries (QR        *)
(* clear). lastCheck, lastOp and recency record the calls of the matcher    *)
(* and of the cache on their own and are left alone here: each task keeps   *)
(* its own record.                                                          *)

\* the counters of self.stats as __init__ sets them; its time fields
\* (total_response_time_ms, start_time, last_query_time) are left out
NoCount ==
    [total_queries |-> 0, blocked_queries |-> 0, allowed_queries |-> 0,
     cached_queries |-> 0, failed_queries |-> 0, upstream_queries |-> 0]

\* the task _serve submits for datagram data: _handle_query(data, addr).
\* counted, sent, asked and logged record what the task did: its increments
\* of the server's counters, its sendto calls, its upstream exchanges and its
\* log_query calls.
NewHandler(data) ==
    [pc |-> "start", data |-> data, response |-> Nothing, path |-> "",
     counted |-> NoCount, sent |-> <<>>, asked |-> <<>>, logged |-> <<>>]

\* the query of a task past parsing
QueryOf(h) == h.data.msg

DomainOf(h) == QueryOf(h).question[1].name

QtypeOf(h) == QueryOf(h).question[1].qtype

\* with self.stats_lock: self.stats[field] += 1, for each field of fields
Count(st, fields) ==
    [f \in DOMAIN st |-> IF f \in fields THEN st[f] + 1 ELSE st[f]]

\* task i counts fields and goes on at pc
CountAndGo(i, fields, pc) ==
    /\ stats' = Count(stats, fields)
    /\ handlers' = [handlers EXCEPT ![i].counted = Count(@, fields),
                                    ![i].pc = pc]

\* the call self.db.log_query(..., result=result, cached=cached); what it
\* raises is caught by the handler and changes nothing
LogRow(result, cached) == [result |-> result, cached |-> cached]

\* a block reply that leaves the rcode at NOERROR
blocked_response_noerror(query) == make_response(query)

\* the reply _handle_blocked sends
blocked_response(query) == set_rcode(make_response(query), "NXDOMAIN")

\* a cache-hit reply that is the cached message itself
cached_reply_as_stored(cached_response, original_query) == cached_response

\* the reply _handle_cached sends
cached_reply(cached_response, original_query) ==
    [make_response(original_query) EXCEPT
        !.answer = cached_response.answer,
        !.authority = cached_response.authority,
        !.additional = cached_response.additional,
        !.flags = cached_response.flags]

\* the reply _send_servfail sends
servfail_response(query) == set_rcode(make_response(query), "SERVFAIL")

\* the counters _handle_blocked increments
BlockedCounts == {"blocked_queries"}

\* a cache hit counted as cached only
CachedCounts_cached_only == {"cached_queries"}

\* the counters _handle_cached increments
CachedCounts == {"cached_queries", "allowed_queries"}

\* an upstream failure counted as allowed too
UpstreamFailureCounts_and_allowed == {"failed_queries", "allowed_queries"}

\* the counters the except clauses of _handle_upstream increment
UpstreamFailureCounts == {"failed_queries"}

\* the datagrams clients send
Datagrams ==
    { Wire(QueryMsg(1, <<Question(<<"a", ".">>, "A")>>)),
      Wire(QueryMsg(2, <<Question(<<"A", ".">>, "A")>>)),
      Wire(QueryMsg(2, <<Question(<<"x", ".", "b", ".">>, "A")>>)),
      Wire(QueryMsg(1, <<>>)),
      Malformed }

\* the files DNSServer.start() loads the matcher from
ServerBlocklistFile == File(<< <<"*", ".", "b">> >>, -1)

ServerWhitelistFile == NoFile

\* DNSCache(...) of the server
ServerCacheConfig == [max_size |-> 2, min_ttl |-> 1, max_ttl |-> 3]

InitServer ==
    /\ stats = NoCount
    /\ handlers = <<>>

\* start(): self.blocklist.load(self.logger), before the socket is bound
StartLoad ==
    /\ bl_stats.load_count = 0
    /\ load(ServerBlocklistFile, ServerWhitelistFile)

\* _serve: recvfrom returns a datagram and the loop submits a task for it
ReceiveOf(datagrams) ==
    /\ bl_stats.load_count > 0
    /\ Len(handlers) < MaxQueries
    /\ \E data \in datagrams : handlers' = Append(handlers, NewHandler(data))
    /\ UNCHANGED stats

Receive == ReceiveOf(Datagrams)

\* datagrams with no question, with one and with two, and one that does not
\* parse
QuestionDatagrams ==
    { Wire(QueryMsg(1, <<Question(<<"a", ".">>, "A")>>)),
      Wire(QueryMsg(2, <<>>)),
      Wire(QueryMsg(3, <<Question(<<"x", ".", "b", ".">>, "A"),
                         Question(<<"a", ".">>, "A")>>)),
      Malformed }

\* a handler that asks the cache before the matcher
first_lookup_cache == "cache_get"

\* _handle_query: the first lookup for the name of a query is
\* self.blocklist.is_blocked(domain); self.cache.get comes after it
first_lookup == "is_blocked"

\* _handle_query up to the matcher: total_queries += 1, then from_wire. A
\* datagram that does not parse raises; a message without a question returns.
HandleQuery(i) ==
    /\ handlers[i].pc = "start"
    /\ LET next == IF ~handlers[i].data.parses THEN "except"
                   ELSE IF Len(handlers[i].data.msg.question) = 0 THEN "done"
                   ELSE first_lookup
       IN  CountAndGo(i, {"total_queries"}, next)

\* _handle_query: if self.blocklist.is_blocked(domain)
HandleIsBlocked(i) ==
    /\ handlers[i].pc = "is_blocked"
    /\ bl_stats' = is_blocked_stats(DomainOf(handlers[i]))
    /\ handlers' = [handlers EXCEPT ![i].pc =
                       IF is_blocked(DomainOf(handlers[i]))
                       THEN "_handle_blocked" ELSE "cache_get"]
    /\ UNCHANGED <<blocked_domains, wildcard_domains, whitelist_domains,
                   whitelist_wildcards, lastCheck, stats>>

\* _handle_blocked: blocked_queries += 1; the NXDOMAIN reply is sent (sendto
\* may raise, which is caught) and the query is logged
HandleBlocked(i) ==
    /\ handlers[i].pc = "_handle_blocked"
    /\ stats' = Count(stats, BlockedCounts)
    /\ \E ok \in BOOLEAN :
         handlers' = [handlers EXCEPT
            ![i].counted = Count(@, BlockedCounts),
            ![i].sent = Append(@, [msg |-> blocked_response(QueryOf(handlers[i])),
                                   ok |-> ok]),
            ![i].logged = Append(@, LogRow("BLOCKED", FALSE)),
            ![i].path = "blocked",
            ![i].pc = "done"]

\* _handle_query: cached_response = self.cache.get(domain, qtype)
HandleCacheGet(i) ==
    /\ handlers[i].pc = "cache_get"
    /\ LET domain == DomainOf(handlers[i])
           qtype == QtypeOf(handlers[i])
           result == get_result(domain, qtype)
       IN  /\ cache' = get_cache(domain, qtype)
           /\ cache_stats' = get_stats(domain, qtype)
           /\ handlers' = [handlers EXCEPT
                 ![i].response = result,
                 ![i].pc = IF result # Nothing THEN "_handle_cached"
                           ELSE "_handle_upstream"]
    /\ UNCHANGED <<max_size, min_ttl, max_ttl, now, lastOp, recency, stats>>

\* _handle_cached: cached_queries += 1 and allowed_queries += 1; the reply is
\* built from the cached response and the incoming query and sent (a raise is
\* caught); the query is logged (a raise is caught)
HandleCached(i) ==
    /\ handlers[i].pc = "_handle_cached"
    /\ stats' = Count(stats, CachedCounts)
    /\ \E ok \in BOOLEAN :
         handlers' = [handlers EXCEPT
            ![i].counted = Count(@, CachedCounts),
            ![i].sent = Append(@, [msg |-> cached_reply(handlers[i].response[1],
                                                        QueryOf(handlers[i])),
                                   ok |-> ok]),
            ![i].logged = Append(@, LogRow("ALLOWED", TRUE)),
            ![i].path = "cached",
            ![i].pc = "done"]

\* _handle_upstream: upstream_queries += 1, then the exchange
\* response = dns.query.udp(query, upstream_dns, timeout=5.0) begins
HandleUpstream(i) ==
    /\ handlers[i].pc = "_handle_upstream"
    /\ CountAndGo(i, {"upstream_queries"}, "dns.query.udp")

\* _handle_upstream: the exchange returns a response; allowed_queries += 1,
\* with or without an answer; the response is sent to the client, and an
\* OSError of sendto goes to the except clause
HandleUpstreamResponseOf(i, outcomes) ==
    /\ handlers[i].pc = "dns.query.udp"
    /\ stats' = Count(stats, {"allowed_queries"})
    /\ \E outcome \in outcomes, ok \in BOOLEAN :
         /\ outcome.raised = "no"
         /\ handlers' = [handlers EXCEPT
               ![i].counted = Count(@, {"allowed_queries"}),
               ![i].asked = Append(@, outcome.raised),
               ![i].response = Some(outcome.response),
               ![i].sent = Append(@, [msg |-> outcome.response, ok |-> ok]),
               ![i].pc = IF ok THEN "cache.store" ELSE "except_sendto"]

HandleUpstreamResponse(i) ==
    HandleUpstreamResponseOf(i, UpstreamOutcomes(QueryOf(handlers[i])))

\* DNSCache.store: ttl = max(self.min_ttl, min(ttl, self.max_ttl)) raises
\* TypeError when a limit is not a number. limits holds min_ttl and max_ttl
\* as the configuration gave them to DNSCache(...), Nothing for a null
store_raises(limits) == limits.min_ttl = Nothing \/ limits.max_ttl = Nothing

\* the limits of a configuration whose cache.min_ttl is null:
\* config.get('cache.min_ttl', 60) returns None for a key that is present
NullLimits == [min_ttl |-> Nothing, max_ttl |-> Some(3)]

\* _handle_upstream: a response with an answer is stored in the cache and
\* the query is logged; what store raises goes to "except Exception"
HandleUpstreamStoreOf(i, limits) ==
    /\ handlers[i].pc = "cache.store"
    /\ LET domain == DomainOf(handlers[i])
           qtype == QtypeOf(handlers[i])
           response == handlers[i].response[1]
       IN  IF Len(response.answer) > 0 /\ store_raises(limits)
           THEN /\ handlers' = [handlers EXCEPT ![i].pc = "except_store"]
                /\ UNCHANGED <<cache, cache_stats>>
           ELSE /\ IF Len(response.answer) > 0
                   THEN /\ cache' = store_cache(domain, qtype, response, Nothing)
                        /\ cache_stats' = store_stats(domain, qtype)
                   ELSE UNCHANGED <<cache, cache_stats>>
                /\ handlers' = [handlers EXCEPT
                      ![i].logged = Append(@, LogRow("ALLOWED", FALSE)),
                      ![i].path = "upstream",
                      ![i].pc = "done"]
    /\ UNCHANGED <<max_size, min_ttl, max_ttl, now, lastOp, recency, stats>>

\* the same with the limits of the cache, which are numbers
HandleUpstreamStore(i) ==
    HandleUpstreamStoreOf(i, [min_ttl |-> Some(min_ttl), max_ttl |-> Some(max_ttl)])

\* _handle_upstream, "except Exception" after the response was sent:
\* failed_queries += 1 and _send_servfail sends the SERVFAIL reply
HandleStoreFailure(i) ==
    /\ handlers[i].pc = "except_store"
    /\ stats' = Count(stats, UpstreamFailureCounts)
    /\ \E ok \in BOOLEAN :
         handlers' = [handlers EXCEPT
            ![i].counted = Count(@, UpstreamFailureCounts),
            ![i].sent = Append(@, [msg |-> servfail_response(QueryOf(handlers[i])),
                                   ok |-> ok]),
            ![i].path = "store failed",
            ![i].pc = "done"]

\* _handle_upstream: the exchange raises (a timeout or another error);
\* failed_queries += 1 and _send_servfail sends the SERVFAIL reply (a raise
\* of sendto is caught)
HandleUpstreamFailure(i) ==
    /\ handlers[i].pc = "dns.query.udp"
    /\ stats' = Count(stats, UpstreamFailureCounts)
    /\ \E outcome \in UpstreamOutcomes(QueryOf(handlers[i])), ok \in BOOLEAN :
         /\ outcome.raised # "no"
         /\ handlers' = [handlers EXCEPT
               ![i].counted = Count(@, UpstreamFailureCounts),
               ![i].asked = Append(@, outcome.raised),
               ![i].sent = Append(@, [msg |-> servfail_response(QueryOf(handlers[i])),
                                      ok |-> ok]),
               ![i].path = "upstream failed",
               ![i].pc = "done"]

\* _handle_upstream: sendto of the upstream response raised OSError;
\* failed_queries += 1 and _send_servfail sends the SERVFAIL reply
HandleSendFailure(i) ==
    /\ handlers[i].pc = "except_sendto"
    /\ stats' = Count(stats, UpstreamFailureCounts)
    /\ \E ok \in BOOLEAN :
         handlers' = [handlers EXCEPT
            ![i].counted = Count(@, UpstreamFailureCounts),
            ![i].sent = Append(@, [msg |-> servfail_response(QueryOf(handlers[i])),
                                   ok |-> ok]),
            ![i].path = "send failed",
            ![i].pc = "done"]

\* an except clause that counts nothing
HandleQueryExcept_uncounted(i) ==
    /\ handlers[i].pc = "except"
    /\ CountAndGo(i, {}, "done")

\* _handle_query, either except clause: failed_queries += 1
HandleQueryExcept(i) ==
    /\ handlers[i].pc = "except"
    /\ CountAndGo(i, {"failed_queries"}, "done")

\* the server: start-up load, datagrams arriving, the tasks of the worker
\* pool running concurrently, and time passing
Next ==
    \/ StartLoad /\ UNCHANGED <<cacheVars, serverVars, restVars>>
    \/ Receive /\ UNCHANGED <<matcherVars, cacheVars, restVars>>
    \/ \E i \in DOMAIN handlers :
          HandleQuery(i) /\ UNCHANGED <<matcherVars, cacheVars, restVars>>
    \/ \E i \in DOMAIN handlers : HandleIsBlocked(i) /\ UNCHANGED <<cacheVars, restVars>>
    \/ \E i \in DOMAIN handlers :
          HandleBlocked(i) /\ UNCHANGED <<matcherVars, cacheVars, restVars>>
    \/ \E i \in DOMAIN handlers : HandleCacheGet(i) /\ UNCHANGED <<matcherVars, restVars>>
    \/ \E i \in DOMAIN handlers :
          HandleCached(i) /\ UNCHANGED <<matcherVars, cacheVars, restVars>>
    \/ \E i \in DOMAIN handlers :
          HandleUpstream(i) /\ UNCHANGED <<matcherVars, cacheVars, restVars>>
    \/ \E i \in DOMAIN handlers :
          HandleUpstreamResponse(i) /\ UNCHANGED <<matcherVars, cacheVars, restVars>>
    \/ \E i \in DOMAIN handlers : HandleUpstreamStore(i) /\ UNCHANGED <<matcherVars, restVars>>
    \/ \E i \in DOMAIN handlers :
          HandleUpstreamFailure(i) /\ UNCHANGED <<matcherVars, cacheVars, restVars>>
    \/ \E i \in DOMAIN handlers :
          HandleSendFailure(i) /\ UNCHANGED <<matcherVars, cacheVars, restVars>>
    \/ \E i \in DOMAIN handlers :
          HandleQueryExcept(i) /\ UNCHANGED <<matcherVars, cacheVars, restVars>>
    \/ Tick /\ UNCHANGED <<matcherVars, serverVars, restVars>>

\* the server receiving QuestionDatagrams
NextQuestions ==
    \/ StartLoad /\ UNCHANGED <<cacheVars, serverVars, restVars>>
    \/ ReceiveOf(QuestionDatagrams) /\ UNCHANGED <<matcherVars, cacheVars, restVars>>
    \/ \E i \in DOMAIN handlers :
          HandleQuery(i) /\ UNCHANGED <<matcherVars, cacheVars, restVars>>
    \/ \E i \in DOMAIN handlers : HandleIsBlocked(i) /\ UNCHANGED <<cacheVars, restVars>>
    \/ \E i \in DOMAIN handlers :
          HandleBlocked(i) /\ UNCHANGED <<matcherVars, cacheVars, restVars>>
    \/ \E i \in DOMAIN handlers : HandleCacheGet(i) /\ UNCHANGED <<matcherVars, restVars>>
    \/ \E i \in DOMAIN handlers :
          HandleCached(i) /\ UNCHANGED <<matcherVars, cacheVars, restVars>>
    \/ \E i \in DOMAIN handlers :
          HandleUpstream(i) /\ UNCHANGED <<matcherVars, cacheVars, restVars>>
    \/ \E i \in DOMAIN handlers :
          HandleUpstreamResponse(i) /\ UNCHANGED <<matcherVars, cacheVars, restVars>>
    \/ \E i \in DOMAIN handlers : HandleUpstreamStore(i) /\ UNCHANGED <<matcherVars, restVars>>
    \/ \E i \in DOMAIN handlers :
          HandleUpstreamFailure(i) /\ UNCHANGED <<matcherVars, cacheVars, restVars>>
    \/ \E i \in DOMAIN handlers :
          HandleSendFailure(i) /\ UNCHANGED <<matcherVars, cacheVars, restVars>>
    \/ \E i \in DOMAIN handlers :
          HandleQueryExcept(i) /\ UNCHANGED <<matcherVars, cacheVars, restVars>>

\* the datagrams of the server under NextUpstream
UpstreamDatagrams ==
    { Wire(QueryMsg(1, <<Question(<<"a", ".">>, "A")>>)),
      Wire(QueryMsg(2, <<Question(<<"x", ".", "b", ".">>, "A")>>)),
      Malformed }

\* the server with an upstream that also sends NegativeWithAnswer
NextUpstream ==
    \/ StartLoad /\ UNCHANGED <<cacheVars, serverVars, restVars>>
    \/ ReceiveOf(UpstreamDatagrams) /\ UNCHANGED <<matcherVars, cacheVars, restVars>>
    \/ \E i \in DOMAIN handlers :
          HandleQuery(i) /\ UNCHANGED <<matcherVars, cacheVars, restVars>>
    \/ \E i \in DOMAIN handlers : HandleIsBlocked(i) /\ UNCHANGED <<cacheVars, restVars>>
    \/ \E i \in DOMAIN handlers :
          HandleBlocked(i) /\ UNCHANGED <<matcherVars, cacheVars, restVars>>
    \/ \E i \in DOMAIN handlers : HandleCacheGet(i) /\ UNCHANGED <<matcherVars, restVars>>
    \/ \E i \in DOMAIN handlers :
          HandleCached(i) /\ UNCHANGED <<matcherVars, cacheVars, restVars>>
    \/ \E i \in DOMAIN handlers :
          HandleUpstream(i) /\ UNCHANGED <<matcherVars, cacheVars, restVars>>
    \/ \E i \in DOMAIN handlers :
          HandleUpstreamResponseOf(i,
             UpstreamOutcomes(QueryOf(handlers[i]))
                \cup {NegativeWithAnswer(QueryOf(handlers[i]))})
          /\ UNCHANGED <<matcherVars, cacheVars, restVars>>
    \/ \E i \in DOMAIN handlers : HandleUpstreamStore(i) /\ UNCHANGED <<matcherVars, restVars>>
    \/ \E i \in DOMAIN handlers :
          HandleUpstreamFailure(i) /\ UNCHANGED <<matcherVars, cacheVars, restVars>>
    \/ \E i \in DOMAIN handlers :
          HandleSendFailure(i) /\ UNCHANGED <<matcherVars, cacheVars, restVars>>
    \/ \E i \in DOMAIN handlers :
          HandleQueryExcept(i) /\ UNCHANGED <<matcherVars, cacheVars, restVars>>

\* the queries sent to the server whose cache has a null limit
NullLimitDatagrams == { Wire(QueryMsg(1, <<Question(<<"a", ".">>, "A")>>)) }

\* the server configured with cache.min_ttl null: every store raises
NextNullLimit ==
    \/ StartLoad /\ UNCHANGED <<cacheVars, serverVars, restVars>>
    \/ ReceiveOf(NullLimitDatagrams) /\ UNCHANGED <<matcherVars, cacheVars, restVars>>
    \/ \E i \in DOMAIN handlers :
          HandleQuery(i) /\ UNCHANGED <<matcherVars, cacheVars, restVars>>
    \/ \E i \in DOMAIN handlers : HandleIsBlocked(i) /\ UNCHANGED <<cacheVars, restVars>>
    \/ \E i \in DOMAIN handlers : HandleCacheGet(i) /\ UNCHANGED <<matcherVars, restVars>>
    \/ \E i \in DOMAIN handlers :
          HandleUpstream(i) /\ UNCHANGED <<matcherVars, cacheVars, restVars>>
    \/ \E i \in DOMAIN handlers :
          HandleUpstreamResponse(i) /\ UNCHANGED <<matcherVars, cacheVars, restVars>>
    \/ \E i \in DOMAIN handlers :
          HandleUpstreamStoreOf(i, NullLimits) /\ UNCHANGED <<matcherVars, restVars>>
    \/ \E i \in DOMAIN handlers :
          HandleStoreFailure(i) /\ UNCHANGED <<matcherVars, cacheVars, restVars>>
    \/ \E i \in DOMAIN handlers :
          HandleUpstreamFailure(i) /\ UNCHANGED <<matcherVars, cacheVars, restVars>>
    \/ \E i \in DOMAIN handlers :
          HandleSendFailure(i) /\ UNCHANGED <<matcherVars, cacheVars, restVars>>

-----------------------------------------------------------------------------
(* The matcher under reload: load() taken statement by statement while      *)
(* worker threads call is_blocked. load and is_blocked both run with        *)
(* BlocklistManager._lock held.                                             *)

\* the four sets load() leaves when it reads the two files
LoadedSets(blocklist_file, whitelist_file) ==
    LET b == _load_blocklist(blocklist_file, {}, {})
        w == _load_whitelist(whitelist_file, {}, {})
    IN  [blocked_domains |-> b.exact, wildcard_domains |-> b.wild,
         whitelist_domains |-> w.exact, whitelist_wildcards |-> w.wild]

\* open() or the iteration over the file raises
ReadFails(file) == file.exists /\ file.fail_at >= 0

\* a lock that any thread passes at any time
Acquire_unlocked(thread) == TRUE

\* with self._lock: the thread enters when the lock is free or its own
Acquire(thread) == bl_lock \in {"free", thread}

NotLoading ==
    [pc |-> "idle", blocklist_file |-> NoFile, whitelist_file |-> NoFile,
     before |-> LoadedSets(NoFile, NoFile), blocked_count |-> 0,
     failed |-> FALSE]

InitSwap ==
    /\ bl_lock = "free"
    /\ loading = NotLoading
    /\ calls = <<>>

\* load(): the lock is taken and the four sets are cleared
LoadClear(blocklist_file, whitelist_file) ==
    /\ loading.pc = "idle"
    /\ Acquire("loader")
    /\ bl_lock' = "loader"
    /\ loading' = [pc |-> "cleared", blocklist_file |-> blocklist_file,
                   whitelist_file |-> whitelist_file, before |-> Sets,
                   blocked_count |-> 0, failed |-> FALSE]
    /\ blocked_domains' = {}
    /\ wildcard_domains' = {}
    /\ whitelist_domains' = {}
    /\ whitelist_wildcards' = {}
    /\ UNCHANGED <<bl_stats, lastCheck, calls>>

\* load(): blocked_count = self._load_blocklist()
LoadBlocklist ==
    /\ loading.pc = "cleared"
    /\ LET b == _load_blocklist(loading.blocklist_file, blocked_domains,
                                wildcard_domains)
       IN  /\ blocked_domains' = b.exact
           /\ wildcard_domains' = b.wild
           /\ loading' = [loading EXCEPT
                 !.pc = "blocklist",
                 !.blocked_count = b.count,
                 !.failed = ReadFails(loading.blocklist_file)]
    /\ UNCHANGED <<whitelist_domains, whitelist_wildcards, bl_stats, lastCheck,
                   bl_lock, calls>>

\* load(): whitelist_count = self._load_whitelist()
LoadWhitelist ==
    /\ loading.pc = "blocklist"
    /\ LET w == _load_whitelist(loading.whitelist_file, whitelist_domains,
                                whitelist_wildcards)
       IN  /\ whitelist_domains' = w.exact
           /\ whitelist_wildcards' = w.wild
           /\ loading' = [loading EXCEPT
                 !.pc = "whitelist",
                 !.failed = @ \/ ReadFails(loading.whitelist_file)]
    /\ UNCHANGED <<blocked_domains, wildcard_domains, bl_stats, lastCheck,
                   bl_lock, calls>>

\* load(): the stats are updated, the counts are returned and the lock is
\* released; loading keeps the files and the sets from before the load
LoadReturn ==
    /\ loading.pc = "whitelist"
    /\ bl_stats' = [bl_stats EXCEPT !.total_blocks = loading.blocked_count,
                                    !.last_loaded = "datetime",
                                    !.load_count = @ + 1]
    /\ loading' = [loading EXCEPT !.pc = "idle"]
    /\ bl_lock' = "free"
    /\ UNCHANGED <<blocked_domains, wildcard_domains, whitelist_domains,
                   whitelist_wildcards, lastCheck, calls>>

\* a worker thread calls is_blocked(domain) and comes to its lock
CallIsBlocked(domain) ==
    /\ calls' = Append(calls, [domain |-> domain, pc |-> "with self._lock",
                               during |-> loading.pc # "idle",
                               result |-> FALSE, pre |-> Sets, post |-> Sets])
    /\ UNCHANGED <<matcherVars, bl_lock, loading>>

\* the body of is_blocked, run with the lock held. The call records the sets
\* from before the load in progress and the sets that load leaves (the sets
\* as they are when no load is in progress).
RunIsBlocked(i) ==
    /\ calls[i].pc = "with self._lock"
    /\ Acquire("worker")
    /\ bl_stats' = is_blocked_stats(calls[i].domain)
    /\ calls' = [calls EXCEPT
          ![i].pc = "returned",
          ![i].result = is_blocked(calls[i].domain),
          ![i].pre = IF loading.pc = "idle" THEN Sets ELSE loading.before,
          ![i].post = IF loading.pc = "idle" THEN Sets
                      ELSE LoadedSets(loading.blocklist_file,
                                      loading.whitelist_file)]
    /\ UNCHANGED <<blocked_domains, wildcard_domains, whitelist_domains,
                   whitelist_wildcards, lastCheck, bl_lock, loading>>

\* the blocklist files on disk when a load runs
SwapBlocklistFiles ==
    { File(<< <<"a">> >>, -1),
      File(<< <<"*", ".", "a">>, <<"b">> >>, -1),
      File(<< <<"b">>, <<"a">> >>, 1) }

\* the whitelist files on disk when a load runs
SwapWhitelistFiles ==
    { NoFile,
      File(<< <<"a", ".", "a">> >>, -1),
      File(<< <<"a">> >>, 0) }

\* the names the worker threads ask about
SwapNames == { <<"a">>, <<"A", ".", "a", ".">>, <<"b">> }

LoadBegin ==
    /\ bl_stats.load_count < MaxLoads
    /\ \E bf \in SwapBlocklistFiles, wf \in SwapWhitelistFiles :
          LoadClear(bf, wf)

CallBegin ==
    /\ Len(calls) < MaxChecks
    /\ \E d \in SwapNames : CallIsBlocked(d)

NextSwap ==
    \/ LoadBegin /\ UNCHANGED <<cacheVars, serverVars, updaterVars, lifeVars>>
    \/ LoadBlocklist /\ UNCHANGED <<cacheVars, serverVars, updaterVars, lifeVars>>
    \/ LoadWhitelist /\ UNCHANGED <<cacheVars, serverVars, updaterVars, lifeVars>>
    \/ LoadReturn /\ UNCHANGED <<cacheVars, serverVars, updaterVars, lifeVars>>
    \/ CallBegin /\ UNCHANGED <<cacheVars, serverVars, updaterVars, lifeVars>>
    \/ \E i \in DOMAIN calls :
          RunIsBlocked(i) /\ UNCHANGED <<cacheVars, serverVars, updaterVars, lifeVars>>

-----------------------------------------------------------------------------
(* The updater: AutoUpdater._perform_update, BlocklistUpdater and the reload *)
(* hook of the server. The matcher is taken to be configured with the file   *)
(* the updater writes (output_dir/blocklists.txt).                           *)

\* the sources of blocklist_sources.yml, all enabled, all of format 'domains'
SourceIds == {"s1", "s2"}

\* what urlopen(...).read() gives for a source when it succeeds
Content(source_id) ==
    IF source_id = "s1"
    THEN << <<"A", ".">> >>
    ELSE << <<"#", " ", "a">>, <<"b">>, <<"*">> >>

\* the outcomes of _download_source: an error, or the content
FetchOutcomes(source_id) == {Nothing, Some(Content(source_id))}

\* names _is_valid_domain of the updater rejects by name
LocalNames ==
    { <<"l", "o", "c", "a", "l", "h", "o", "s", "t">>,
      <<"l", "o", "c", "a", "l", "h", "o", "s", "t", ".",
        "l", "o", "c", "a", "l", "d", "o", "m", "a", "i", "n">>,
      <<"l", "o", "c", "a", "l">>,
      <<"b", "r", "o", "a", "d", "c", "a", "s", "t", "h", "o", "s", "t">> }

\* the longest name _is_valid_domain of the updater accepts
MaxDomainLen == 253

\* ^\d{1,3}\.\d{1,3}\.\d{1,3}\.\d{1,3}$
IsIPv4(domain) ==
    LET parts == split_on(domain, ".") IN
    /\ Len(parts) = 4
    /\ \A i \in 1..4 :
          /\ Len(parts[i]) \in 1..3
          /\ \A j \in 1..Len(parts[i]) : parts[i][j] \in Digits

\* BlocklistUpdater._is_valid_domain
BlocklistUpdater_is_valid_domain(domain) ==
    /\ Len(domain) > 0
    /\ Len(domain) <= MaxDomainLen
    /\ domain \notin LocalNames
    /\ ~IsIPv4(domain)
    /\ _is_valid_domain(domain)

\* _parse_blocklist(content, 'domains')
_parse_blocklist(content) ==
    LET stripped == [i \in 1..Len(content) |-> strip(content[i])]
        kept == {i \in 1..Len(content) :
                    /\ Len(stripped[i]) > 0
                    /\ ~startswith(stripped[i], <<"#">>)}
        doms == {rstrip_dot(lower(stripped[i])) : i \in kept}
    IN  {d \in doms : BlocklistUpdater_is_valid_domain(d)}

\* _parse_blocklist(content, 'hosts'): the second field of the lines that
\* start with 0.0.0.0 or 127.0.0.1
_parse_blocklist_hosts(content) ==
    LET stripped == [i \in 1..Len(content) |-> strip(content[i])]
        kept == {i \in 1..Len(content) :
                    /\ Len(stripped[i]) > 0
                    /\ ~startswith(stripped[i], <<"#">>)
                    /\ \/ startswith(stripped[i], <<"0", ".", "0", ".", "0", ".", "0">>)
                       \/ startswith(stripped[i],
                                     <<"1", "2", "7", ".", "0", ".", "0", ".", "1">>)
                    /\ Len(split(stripped[i])) >= 2}
        doms == {rstrip_dot(lower(split(stripped[i])[2])) : i \in kept}
    IN  {d \in doms : BlocklistUpdater_is_valid_domain(d)}

\* ord(c) for the characters of a valid domain
Ord(c) ==
    CASE c = "*" -> 42 [] c = "-" -> 45 [] c = "." -> 46
      [] c = "0" -> 48 [] c = "1" -> 49 [] c = "2" -> 50 [] c = "7" -> 55
      [] c = "a" -> 97 [] c = "b" -> 98 [] OTHER -> 0

RECURSIVE TextLess(_, _)
\* a < b for two str
TextLess(a, b) ==
    IF Len(a) = 0 THEN Len(b) > 0
    ELSE IF Len(b) = 0 THEN FALSE
    ELSE IF a[1] # b[1] THEN Ord(a[1]) < Ord(b[1])
    ELSE TextLess(Tail(a), Tail(b))

\* sorted(domains)
sorted(domains) ==
    CHOOSE q \in [1..Cardinality(domains) -> domains] :
        \A i, j \in 1..Cardinality(domains) : i < j => TextLess(q[i], q[j])

\* the domains written the way the header lists the sources
MergedLines_as_comments(domains) ==
    [i \in 1..Cardinality(domains) |-> <<"#", " ", "-", " ">> \o sorted(domains)[i]]

\* the lines merge_blocklists writes: the header comments, an empty line, the
\* domains in order
MergedLines(domains) ==
    << <<"#", " ", "a">>, <<"#">>, <<>> >> \o sorted(domains)

\* the sources whose file exists in the cache directory cd
files_to_merge(cd) == {sid \in SourceIds : cd[sid] # Nothing}

\* the domains merge_blocklists collects from the files
MergedDomains(cd) ==
    UNION {_parse_blocklist(cd[sid][1]) : sid \in files_to_merge(cd)}

RECURSIVE total_entries(_, _)
\* the sum of the numbers of domains parsed from the files of S
total_entries(cd, S) ==
    IF S = {} THEN 0
    ELSE LET sid == CHOOSE x \in S : TRUE
         IN  Cardinality(_parse_blocklist(cd[sid][1])) + total_entries(cd, S \ {sid})

\* the latest _perform_update call: what it downloaded, whether it merged,
\* result['success'], the counter it was counted in, the sources whose fetch
\* succeeded and whether the hook was called
NoTick ==
    [downloaded |-> 0, merged |-> FALSE, success |-> FALSE, counted |-> "none",
     fetched |-> {}, hook |-> FALSE]

InitUpdater ==
    /\ cache_dir = [sid \in SourceIds |-> Nothing]
    /\ output_file = ServerBlocklistFile
    /\ bu_stats = [last_update |-> None, total_sources |-> 0,
                   successful_downloads |-> 0, failed_downloads |-> 0,
                   total_domains |-> 0, unique_domains |-> 0]
    /\ au_stats = [last_update |-> None, next_update |-> None,
                   total_updates |-> 0, successful_updates |-> 0,
                   failed_updates |-> 0]
    /\ tick = NoTick
    /\ started = <<>>
    /\ reloads = <<>>

\* download_blocklists: each source is fetched; a fetched content replaces the
\* file of the source in the cache directory, a failed fetch leaves it
download_blocklists(fetched) ==
    LET ok == {sid \in SourceIds : fetched[sid] # Nothing} IN
    [success |-> TRUE,
     downloaded |-> Cardinality(ok),
     failed |-> Cardinality(SourceIds \ ok),
     fetched |-> ok,
     cache_dir |-> [sid \in SourceIds |->
                       IF sid \in ok THEN fetched[sid] ELSE cache_dir[sid]]]

\* the outcomes of writing the merged file: written, or an error before or
\* after open() has truncated the file
WriteOutcomes == {"written", "not opened", "truncated"}

\* merge_blocklists(sources, 'blocklists.txt') over the cache directory cd
merge_blocklists(cd, write) ==
    IF files_to_merge(cd) = {}
    THEN [success |-> FALSE, output_file |-> output_file, written |-> FALSE]
    ELSE IF write = "written"
    THEN [success |-> TRUE,
          output_file |-> File(MergedLines(MergedDomains(cd)), -1),
          written |-> TRUE]
    ELSE [success |-> FALSE,
          output_file |-> IF write = "truncated" THEN File(<<>>, -1) ELSE output_file,
          written |-> FALSE]

\* update_blocklists: download, then "if not download_result['success'] or
\* download_result['downloaded'] == 0: return download_result", then merge
update_blocklists(fetched, write) ==
    LET download_result == download_blocklists(fetched)
        merge_result == merge_blocklists(download_result.cache_dir, write)
    IN  IF ~download_result.success \/ download_result.downloaded = 0
        THEN [success |-> download_result.success, merged |-> FALSE,
              download |-> download_result,
              output_file |-> output_file, written |-> FALSE]
        ELSE [success |-> merge_result.success, merged |-> TRUE,
              download |-> download_result,
              output_file |-> merge_result.output_file,
              written |-> merge_result.written]

\* the blocklist file and the whitelist file as the hook finds them: the file
\* just written, which may fail to be read, and the whitelist of the start
\* or one the user has edited since
ReloadFiles(written) ==
    { <<written, ServerWhitelistFile>>,
      <<written, File(<< <<"a">> >>, -1)>>,
      <<[written EXCEPT !.fail_at = 0], ServerWhitelistFile>> }

\* DNSServer._reload_blocklists, the hook: blocklist.reload(), which is load();
\* reading the blocklist file may fail
_reload_blocklists(blocklist_file, whitelist_file, result) ==
    /\ load(blocklist_file, whitelist_file)
    /\ reloads' = Append(reloads,
          [merged |-> result.merged,
           domains |-> MergedDomains(result.download.cache_dir),
           read_failed |-> ReadFails(blocklist_file),
           before |-> Sets,
           after |-> [blocked_domains |-> blocked_domains',
                      wildcard_domains |-> wildcard_domains',
                      whitelist_domains |-> whitelist_domains',
                      whitelist_wildcards |-> whitelist_wildcards']])

\* AutoUpdater._perform_update, one tick of the updater thread:
\* total_updates += 1, update_blocklists, then successful_updates += 1 and
\* the hook when result['success'], failed_updates += 1 otherwise
PerformUpdateUpTo(max_ticks) ==
    /\ au_stats.total_updates < max_ticks
    /\ \E fetched \in [SourceIds -> UNION {FetchOutcomes(sid) : sid \in SourceIds}],
          write \in WriteOutcomes :
         /\ \A sid \in SourceIds : fetched[sid] \in FetchOutcomes(sid)
         /\ LET result == update_blocklists(fetched, write) IN
            /\ cache_dir' = result.download.cache_dir
            /\ output_file' = result.output_file
            /\ bu_stats' =
                 [bu_stats EXCEPT
                    !.total_sources = Cardinality(SourceIds),
                    !.successful_downloads = result.download.downloaded,
                    !.failed_downloads = result.download.failed,
                    !.total_domains =
                       IF result.written
                       THEN total_entries(result.download.cache_dir,
                                          files_to_merge(result.download.cache_dir))
                       ELSE @,
                    !.unique_domains =
                       IF result.written
                       THEN Cardinality(MergedDomains(result.download.cache_dir))
                       ELSE @,
                    !.last_update = IF result.written THEN "datetime" ELSE @]
            /\ tick' = [downloaded |-> result.download.downloaded,
                        merged |-> result.merged,
                        success |-> result.success,
                        counted |-> IF result.success THEN "successful_updates"
                                    ELSE "failed_updates",
                        fetched |-> result.download.fetched,
                        hook |-> result.success]
            /\ IF result.success
               THEN /\ au_stats' = [au_stats EXCEPT !.total_updates = @ + 1,
                                                    !.successful_updates = @ + 1,
                                                    !.last_update = "datetime"]
                    /\ \E files \in ReloadFiles(result.output_file) :
                         _reload_blocklists(files[1], files[2], result)
               ELSE /\ au_stats' = [au_stats EXCEPT !.total_updates = @ + 1,
                                                    !.failed_updates = @ + 1]
                    /\ UNCHANGED <<matcherVars, reloads>>
    /\ UNCHANGED started

PerformUpdate == PerformUpdateUpTo(MaxTicks)

\* the updater on its own: one tick after another
NextUpdater ==
    PerformUpdateUpTo(MaxUpdates)
        /\ UNCHANGED <<cacheVars, serverVars, swapVars, lifeVars>>

-----------------------------------------------------------------------------
(* AutoUpdater: start(), stop(), the loop thread and trigger_update_now().  *)
(* Thread 1 is the thread that calls start() and stop(); a loop thread is    *)
(* the Thread start() creates, a manual thread the Thread the dashboard      *)
(* creates for trigger_update_now. Here an update is its three phases in     *)
(* order (PerformUpdateUpTo is what they do to the files and the matcher).   *)

\* a thread at pc; notified: stop_event.set() ran while it was blocked in wait
Thread(kind, pc) == [kind |-> kind, pc |-> pc, notified |-> FALSE]

\* the phases of _perform_update: update_blocklists is download_blocklists
\* ("fetch") and merge_blocklists ("merge"), each under BlocklistUpdater._lock;
\* then on_update_callback ("notify")
UpdatePhases == {"fetch", "merge", "notify"}

InitScheduler ==
    /\ au_running = FALSE
    /\ stop_event = FALSE
    /\ au_thread = 0
    /\ au_threads = << Thread("caller", "idle") >>
    /\ au_calls = [starts |-> 0, triggers |-> 0, timeouts |-> 0]

\* start(update_on_startup): returns when running; else the initial update
\* runs in the calling thread before the loop thread is created
AuStart ==
    /\ au_threads[1].pc = "idle"
    /\ au_calls.starts < MaxStarts
    /\ au_calls' = [au_calls EXCEPT !.starts = @ + 1]
    /\ \E update_on_startup \in BOOLEAN :
         au_threads' = [au_threads EXCEPT ![1].pc =
            IF au_running THEN "idle"
            ELSE IF update_on_startup THEN "fetch" ELSE "running = True"]
    /\ UNCHANGED <<au_running, stop_event, au_thread, au_stats>>

\* start(): self.running = True
AuStartRunning ==
    /\ au_threads[1].pc = "running = True"
    /\ au_running' = TRUE
    /\ au_threads' = [au_threads EXCEPT ![1].pc = "clear"]
    /\ UNCHANGED <<stop_event, au_thread, au_calls, au_stats>>

\* start(): self.stop_event.clear(); self.thread = Thread(target=
\* self._update_loop, ...); self.thread.start()
AuStartThread ==
    /\ au_threads[1].pc = "clear"
    /\ stop_event' = FALSE
    /\ au_threads' = Append([au_threads EXCEPT ![1].pc = "idle"],
                            Thread("loop", "while"))
    /\ au_thread' = Len(au_threads) + 1
    /\ UNCHANGED <<au_running, au_calls, au_stats>>

\* stop(): returns when not running; else self.running = False
AuStop ==
    /\ au_threads[1].pc = "idle"
    /\ au_running
    /\ au_running' = FALSE
    /\ au_threads' = [au_threads EXCEPT ![1].pc = "set"]
    /\ UNCHANGED <<stop_event, au_thread, au_calls, au_stats>>

\* stop(): self.stop_event.set(), which wakes every thread blocked in wait
AuStopSet ==
    /\ au_threads[1].pc = "set"
    /\ stop_event' = TRUE
    /\ au_threads' = [t \in DOMAIN au_threads |->
          IF t = 1 THEN [au_threads[t] EXCEPT !.pc = "join"]
          ELSE IF au_threads[t].pc = "waiting"
               THEN [au_threads[t] EXCEPT !.notified = TRUE]
               ELSE au_threads[t]]
    /\ UNCHANGED <<au_running, au_thread, au_calls, au_stats>>

\* stop(): self.thread.join(timeout=5) returns, the thread ended or not
AuStopJoin ==
    /\ au_threads[1].pc = "join"
    /\ au_threads' = [au_threads EXCEPT ![1].pc = "idle"]
    /\ UNCHANGED <<au_running, stop_event, au_thread, au_calls, au_stats>>

\* the dashboard: Thread(target=auto_updater.trigger_update_now).start()
TriggerUpdateNow ==
    /\ au_calls.triggers < MaxTriggers
    /\ au_calls' = [au_calls EXCEPT !.triggers = @ + 1]
    /\ au_threads' = Append(au_threads, Thread("manual", "fetch"))
    /\ UNCHANGED <<au_running, stop_event, au_thread, au_stats>>

\* _update_loop: while self.running
LoopWhile(t) ==
    /\ au_threads[t].kind = "loop"
    /\ au_threads[t].pc = "while"
    /\ au_threads' = [au_threads EXCEPT ![t].pc =
                         IF au_running THEN "wait" ELSE "exited"]
    /\ UNCHANGED <<au_running, stop_event, au_thread, au_calls, au_stats>>

\* _update_loop: self.stop_event.wait(timeout=...) is entered; it returns
\* True at once when the event is set, and blocks otherwise
LoopWait(t) ==
    /\ au_threads[t].kind = "loop"
    /\ au_threads[t].pc = "wait"
    /\ au_threads' = [au_threads EXCEPT ![t].pc =
                         IF stop_event THEN "exited" ELSE "waiting"]
    /\ UNCHANGED <<au_running, stop_event, au_thread, au_calls, au_stats>>

\* a wait that returns False though the event was set
wait_returns_ignoring_set(notified) == "if self.running"

\* what the blocked wait returns to: break when it was woken by set(), the
\* test of self.running when it timed out
wait_returns(notified) == IF notified THEN "exited" ELSE "if self.running"

\* _update_loop: the blocked wait returns, woken by set() or timed out
LoopWake(t) ==
    /\ au_threads[t].kind = "loop"
    /\ au_threads[t].pc = "waiting"
    /\ au_threads[t].notified \/ au_calls.timeouts < MaxTicks
    /\ au_threads' = [au_threads EXCEPT
                         ![t].pc = wait_returns(au_threads[t].notified)]
    /\ au_calls' = [au_calls EXCEPT !.timeouts =
                        IF au_threads[t].notified THEN @ ELSE @ + 1]
    /\ UNCHANGED <<au_running, stop_event, au_thread, au_stats>>

\* _update_loop: if self.running: self._perform_update()
LoopIfRunning(t) ==
    /\ au_threads[t].kind = "loop"
    /\ au_threads[t].pc = "if self.running"
    /\ au_threads' = [au_threads EXCEPT ![t].pc =
                         IF au_running THEN "fetch" ELSE "while"]
    /\ UNCHANGED <<au_running, stop_event, au_thread, au_calls, au_stats>>

\* where a thread goes on after _perform_update
AfterUpdate(kind) ==
    CASE kind = "caller" -> "running = True"
      [] kind = "loop" -> "while"
      [] OTHER -> "exited"

\* _perform_update in thread t, one phase: total_updates += 1 and
\* download_blocklists; merge_blocklists; the hook
UpdatePhase(t) ==
    /\ au_threads[t].pc \in UpdatePhases
    /\ au_threads' = [au_threads EXCEPT ![t].pc =
          CASE au_threads[t].pc = "fetch" -> "merge"
            [] au_threads[t].pc = "merge" -> "notify"
            [] OTHER -> AfterUpdate(au_threads[t].kind)]
    /\ au_stats' = [au_stats EXCEPT !.total_updates =
                       IF au_threads[t].pc = "fetch" THEN @ + 1 ELSE @]
    /\ UNCHANGED <<au_running, stop_event, au_thread, au_calls>>

\* au_stats is the one variable of the updater these actions write
schedRest ==
    <<matcherVars, cacheVars, serverVars, swapVars, cache_dir, output_file,
      bu_stats, tick, started, reloads, merging, serveVars, parsed>>

NextScheduler ==
    \/ AuStart /\ UNCHANGED schedRest
    \/ AuStartRunning /\ UNCHANGED schedRest
    \/ AuStartThread /\ UNCHANGED schedRest
    \/ AuStop /\ UNCHANGED schedRest
    \/ AuStopSet /\ UNCHANGED schedRest
    \/ AuStopJoin /\ UNCHANGED schedRest
    \/ TriggerUpdateNow /\ UNCHANGED schedRest
    \/ \E t \in DOMAIN au_threads : LoopWhile(t) /\ UNCHANGED schedRest
    \/ \E t \in DOMAIN au_threads : LoopWait(t) /\ UNCHANGED schedRest
    \/ \E t \in DOMAIN au_threads : LoopWake(t) /\ UNCHANGED schedRest
    \/ \E t \in DOMAIN au_threads : LoopIfRunning(t) /\ UNCHANGED schedRest
    \/ \E t \in DOMAIN au_threads : UpdatePhase(t) /\ UNCHANGED schedRest

\* start(), stop() and the loop threads, with no update triggered by hand
NextLoop ==
    \/ AuStart /\ UNCHANGED schedRest
    \/ AuStartRunning /\ UNCHANGED schedRest
    \/ AuStartThread /\ UNCHANGED schedRest
    \/ AuStop /\ UNCHANGED schedRest
    \/ AuStopSet /\ UNCHANGED schedRest
    \/ AuStopJoin /\ UNCHANGED schedRest
    \/ \E t \in DOMAIN au_threads : LoopWhile(t) /\ UNCHANGED schedRest
    \/ \E t \in DOMAIN au_threads : LoopWait(t) /\ UNCHANGED schedRest
    \/ \E t \in DOMAIN au_threads : LoopWake(t) /\ UNCHANGED schedRest
    \/ \E t \in DOMAIN au_threads : LoopIfRunning(t) /\ UNCHANGED schedRest
    \/ \E t \in DOMAIN au_threads : UpdatePhase(t) /\ UNCHANGED schedRest

\* the most threads a behaviour has: the caller, a loop thread for each
\* start() and a manual thread for each trigger
MaxThreads == 1 + MaxStarts + MaxTriggers

-----------------------------------------------------------------------------
(* DNSServer.start(), _serve, the worker pool and stop(), with the signal    *)
(* handler of main.py. start() and the handler run in the main thread: the   *)
(* handler runs between two statements of start(), calls stop() and then     *)
(* sys.exit(0), whose SystemExit ends start() through its finally clause.    *)

\* main.pending: a stop() call found tasks of the pool that had not finished;
\* main.closed: a stop() call has shut the pool down and closed the socket;
\* dns.redirected: start() has set the DNS of the host to 127.0.0.1;
\* dns.restores: the restore_original_dns calls, with what each returned
\* DNSServer(..., dns_manager=dns_manager): main.py passes the
\* NetworkDNSManager unless --no-manage-dns is given, and None then
InitServeWith(manage_dns) ==
    /\ running = FALSE
    /\ shutdown_event = FALSE
    /\ main = [pc |-> "load", signalled |-> FALSE, bound |-> FALSE,
               dns_manager |-> manage_dns, pending |-> FALSE,
               closed |-> FALSE]
    /\ serve = [got |-> Nothing, errors |-> 0, log |-> <<>>]
    /\ dns = [_dns_changed |-> FALSE, network_interface |-> FALSE,
              host |-> "original", redirected |-> FALSE, restores |-> <<>>]

InitServe == InitServeWith(FALSE)

\* start(): self.blocklist.load(self.logger), then the auto-updater and the
\* dashboard are started
StartBlocklist ==
    /\ main.pc = "load"
    /\ StartLoad
    /\ main' = [main EXCEPT !.pc = IF main.dns_manager
                                   THEN "get_active_interface" ELSE "bind"]
    /\ UNCHANGED <<running, shutdown_event, serve, dns>>

\* save_and_set_local_dns: self.network_interface = self.get_active_interface();
\* without an interface it returns False
GetActiveInterface ==
    /\ main.pc = "get_active_interface"
    /\ \E found \in BOOLEAN :
         /\ dns' = [dns EXCEPT !.network_interface = found]
         /\ main' = [main EXCEPT !.pc = IF found THEN "set_dns" ELSE "bind"]
    /\ UNCHANGED <<running, shutdown_event, serve>>

\* save_and_set_local_dns: the DNS of the host is saved and
\* self.set_dns(['127.0.0.1']) runs the command that changes it, or fails
SetLocalDns ==
    /\ main.pc = "set_dns"
    /\ \E ok \in BOOLEAN :
         /\ dns' = [dns EXCEPT !.host = IF ok THEN "local" ELSE @,
                               !.redirected = ok]
         /\ main' = [main EXCEPT !.pc = IF ok THEN "_dns_changed = True"
                                        ELSE "bind"]
    /\ UNCHANGED <<running, shutdown_event, serve>>

\* save_and_set_local_dns: self._dns_changed = True
SetDnsChanged ==
    /\ main.pc = "_dns_changed = True"
    /\ dns' = [dns EXCEPT !._dns_changed = TRUE]
    /\ main' = [main EXCEPT !.pc = "bind"]
    /\ UNCHANGED <<running, shutdown_event, serve>>

\* start(): the socket is created and bound and self.running = True; an
\* OSError of bind goes to the except clauses and the finally clause
Bind ==
    /\ main.pc = "bind"
    /\ \E ok \in BOOLEAN :
         /\ running' = ok
         /\ main' = [main EXCEPT !.pc = IF ok THEN "recvfrom" ELSE "finally",
                                 !.bound = ok]
    /\ UNCHANGED <<shutdown_event, serve, dns>>

\* the datagrams the clients may send, by position in the order of arrival:
\* a query that goes upstream or a query for a blocked name, then the first
\* query again or a datagram that does not parse, then the blocked name
ServeDatagrams ==
    << { Wire(QueryMsg(1, <<Question(<<"a", ".">>, "A")>>)),
         Wire(QueryMsg(1, <<Question(<<"x", ".", "b", ".">>, "A")>>)) },
       { Wire(QueryMsg(2, <<Question(<<"a", ".">>, "A")>>)),
         Malformed },
       { Wire(QueryMsg(3, <<Question(<<"x", ".", "b", ".">>, "A")>>)) } >>

\* an except clause of _serve that leaves the loop
serve_except_break(is_running) == "finally"

\* _serve: after "except Exception" has logged the error the loop goes on
\* with its test "while self.running"
serve_except(is_running) == IF is_running THEN "recvfrom" ELSE "finally"

\* _serve: self.sock.recvfrom(512) returns a datagram, or raises
\* socket.timeout (break when the shutdown event is set, else continue), or
\* raises another exception, which is logged
ServeRecv ==
    /\ main.pc = "recvfrom"
    /\ \/ /\ Len(handlers) < Min(MaxQueries, Len(ServeDatagrams))
          /\ \E data \in ServeDatagrams[Len(handlers) + 1] :
                serve' = [serve EXCEPT !.got = Some(data)]
          /\ main' = [main EXCEPT !.pc = "submit"]
       \/ /\ main' = [main EXCEPT !.pc =
                         IF shutdown_event \/ ~running THEN "finally"
                         ELSE "recvfrom"]
          /\ UNCHANGED serve
       \/ /\ serve.errors < MaxErrors
          /\ serve' = [serve EXCEPT !.errors = @ + 1]
          /\ main' = [main EXCEPT !.pc = serve_except(running)]
    /\ UNCHANGED <<running, shutdown_event, dns, handlers, stats>>

\* the tasks of the pool a worker thread is running
Busy == {i \in DOMAIN handlers : handlers[i].pc \notin {"start", "done"}}

\* the tasks in the queue of the pool
Queued == {i \in DOMAIN handlers : handlers[i].pc = "start"}

\* a submit that returns only when a worker is free
submit_returns_when_idle == Cardinality(Busy) < MaxWorkers

\* ThreadPoolExecutor.submit puts the task in the unbounded queue of the pool
\* and returns
submit_returns == TRUE

\* _serve: self.executor.submit(self._handle_query, data, addr)
ServeSubmit ==
    /\ main.pc = "submit"
    /\ submit_returns
    /\ handlers' = Append(handlers, NewHandler(serve.got[1]))
    /\ serve' = [serve EXCEPT
          !.got = Nothing,
          !.log = Append(@, [errors |-> serve.errors,
                             failed |-> stats.failed_queries,
                             busy |-> Cardinality(Busy)])]
    /\ main' = [main EXCEPT !.pc = IF running THEN "recvfrom" ELSE "finally"]
    /\ UNCHANGED <<running, shutdown_event, dns, stats>>

\* a worker thread of the pool that is free takes the oldest task of the
\* queue and runs _handle_query
WorkerTakes(i) ==
    /\ Cardinality(Busy) < MaxWorkers
    /\ \A j \in Queued : i <= j
    /\ HandleQuery(i)

\* stop(), up to the thread pool: self.running = False, the shutdown event is
\* set, and restore_original_dns() is called when dns_changed; set_dns may fail
stop ==
    /\ running' = FALSE
    /\ shutdown_event' = TRUE
    /\ IF main.dns_manager /\ dns._dns_changed
       THEN \E ok \in BOOLEAN :
              dns' = [dns EXCEPT !.restores = Append(@, ok),
                                 !.host = IF ok THEN "original" ELSE @,
                                 !._dns_changed = ~ok]
       ELSE UNCHANGED dns

\* a SIGINT or SIGTERM arrives while the main thread is in start():
\* signal_handler calls _dns_server.stop()
Signal ==
    /\ ~main.signalled
    /\ main.pc \notin {"stop", "ended"}
    /\ stop
    /\ main' = [main EXCEPT !.signalled = TRUE, !.pc = "sys.exit",
                            !.pending = @ \/ Busy \cup Queued # {}]
    /\ UNCHANGED serve

\* start(): finally: self.stop()
Finally ==
    /\ main.pc = "finally"
    /\ stop
    /\ main' = [main EXCEPT !.pc = "stop",
                            !.pending = @ \/ Busy \cup Queued # {}]
    /\ UNCHANGED serve

\* a shutdown of the pool that does not wait: shutdown(wait=False)
shutdown_returns_at_once == TRUE

\* self.executor.shutdown(wait=True, cancel_futures=False) returns when the
\* tasks submitted, queued ones included, have run
shutdown_returns == \A i \in DOMAIN handlers : handlers[i].pc = "done"

\* stop(): self.executor.shutdown(wait=True, cancel_futures=False) returns
\* when every task has run; the socket is closed. After the stop() of the
\* handler sys.exit(0) raises SystemExit, which start() does not catch
Shutdown ==
    /\ main.pc \in {"sys.exit", "stop"}
    /\ shutdown_returns
    /\ main' = [main EXCEPT !.pc = IF main.pc = "sys.exit" THEN "finally"
                                  ELSE "ended",
                            !.closed = TRUE]
    /\ UNCHANGED <<running, shutdown_event, serve, dns>>

serveRest == <<swapVars, updaterVars, schedVars, merging, parsed>>

\* the server started without a NetworkDNSManager
NextServe ==
    \/ StartBlocklist /\ UNCHANGED <<cacheVars, serverVars, serveRest>>
    \/ Bind /\ UNCHANGED <<matcherVars, cacheVars, serverVars, serveRest>>
    \/ ServeRecv /\ UNCHANGED <<matcherVars, cacheVars, serveRest>>
    \/ ServeSubmit /\ UNCHANGED <<matcherVars, cacheVars, serveRest>>
    \/ Signal /\ UNCHANGED <<matcherVars, cacheVars, serverVars, serveRest>>
    \/ Finally /\ UNCHANGED <<matcherVars, cacheVars, serverVars, serveRest>>
    \/ Shutdown /\ UNCHANGED <<matcherVars, cacheVars, serverVars, serveRest>>
    \/ \E i \in DOMAIN handlers :
          WorkerTakes(i) /\ UNCHANGED <<matcherVars, cacheVars, restVars>>
    \/ \E i \in DOMAIN handlers : HandleIsBlocked(i) /\ UNCHANGED <<cacheVars, restVars>>
    \/ \E i \in DOMAIN handlers :
          HandleBlocked(i) /\ UNCHANGED <<matcherVars, cacheVars, restVars>>
    \/ \E i \in DOMAIN handlers : HandleCacheGet(i) /\ UNCHANGED <<matcherVars, restVars>>
    \/ \E i \in DOMAIN handlers :
          HandleCached(i) /\ UNCHANGED <<matcherVars, cacheVars, restVars>>
    \/ \E i \in DOMAIN handlers :
          HandleUpstream(i) /\ UNCHANGED <<matcherVars, cacheVars, restVars>>
    \/ \E i \in DOMAIN handlers :
          HandleUpstreamResponse(i) /\ UNCHANGED <<matcherVars, cacheVars, restVars>>
    \/ \E i \in DOMAIN handlers : HandleUpstreamStore(i) /\ UNCHANGED <<matcherVars, restVars>>
    \/ \E i \in DOMAIN handlers :
          HandleUpstreamFailure(i) /\ UNCHANGED <<matcherVars, cacheVars, restVars>>
    \/ \E i \in DOMAIN handlers :
          HandleSendFailure(i) /\ UNCHANGED <<matcherVars, cacheVars, restVars>>
    \/ \E i \in DOMAIN handlers :
          HandleQueryExcept(i) /\ UNCHANGED <<matcherVars, cacheVars, restVars>>

\* the server started with the NetworkDNSManager
NextStart ==
    \/ StartBlocklist /\ UNCHANGED <<cacheVars, serverVars, serveRest>>
    \/ GetActiveInterface /\ UNCHANGED <<matcherVars, cacheVars, serverVars, serveRest>>
    \/ SetLocalDns /\ UNCHANGED <<matcherVars, cacheVars, serverVars, serveRest>>
    \/ SetDnsChanged /\ UNCHANGED <<matcherVars, cacheVars, serverVars, serveRest>>
    \/ Bind /\ UNCHANGED <<matcherVars, cacheVars, serverVars, serveRest>>
    \/ ServeRecv /\ UNCHANGED <<matcherVars, cacheVars, serveRest>>
    \/ ServeSubmit /\ UNCHANGED <<matcherVars, cacheVars, serveRest>>
    \/ Signal /\ UNCHANGED <<matcherVars, cacheVars, serverVars, serveRest>>
    \/ Finally /\ UNCHANGED <<matcherVars, cacheVars, serverVars, serveRest>>
    \/ Shutdown /\ UNCHANGED <<matcherVars, cacheVars, serverVars, serveRest>>
    \/ \E i \in DOMAIN handlers :
          WorkerTakes(i) /\ UNCHANGED <<matcherVars, cacheVars, restVars>>
    \/ \E i \in DOMAIN handlers : HandleIsBlocked(i) /\ UNCHANGED <<cacheVars, restVars>>
    \/ \E i \in DOMAIN handlers :
          HandleBlocked(i) /\ UNCHANGED <<matcherVars, cacheVars, restVars>>
    \/ \E i \in DOMAIN handlers : HandleCacheGet(i) /\ UNCHANGED <<matcherVars, restVars>>
    \/ \E i \in DOMAIN handlers :
          HandleCached(i) /\ UNCHANGED <<matcherVars, cacheVars, restVars>>
    \/ \E i \in DOMAIN handlers :
          HandleUpstream(i) /\ UNCHANGED <<matcherVars, cacheVars, restVars>>
    \/ \E i \in DOMAIN handlers :
          HandleUpstreamResponse(i) /\ UNCHANGED <<matcherVars, cacheVars, restVars>>
    \/ \E i \in DOMAIN handlers : HandleUpstreamStore(i) /\ UNCHANGED <<matcherVars, restVars>>
    \/ \E i \in DOMAIN handlers :
          HandleUpstreamFailure(i) /\ UNCHANGED <<matcherVars, cacheVars, restVars>>
    \/ \E i \in DOMAIN handlers :
          HandleSendFailure(i) /\ UNCHANGED <<matcherVars, cacheVars, restVars>>
    \/ \E i \in DOMAIN handlers :
          HandleQueryExcept(i) /\ UNCHANGED <<matcherVars, cacheVars, restVars>>

-----------------------------------------------------------------------------
(* merge_blocklists writing the merged file, statement by statement, while   *)
(* the matcher is reloaded by another thread: the hook of another update or  *)
(* DNSServer.reload_blocklist.                                               *)

\* no merge is writing
NotMerging == [pc |-> "idle", lines |-> <<>>, previous |-> NoFile]

InitWrite == merging = NotMerging

\* update_blocklists: total_updates += 1 and download_blocklists, with at
\* least one source fetched, so that the merge follows
MergeDownload ==
    /\ merging.pc = "idle"
    /\ au_stats.total_updates < MaxUpdates
    /\ au_stats' = [au_stats EXCEPT !.total_updates = @ + 1]
    /\ \E fetched \in [SourceIds -> UNION {FetchOutcomes(sid) : sid \in SourceIds}] :
         /\ \A sid \in SourceIds : fetched[sid] \in FetchOutcomes(sid)
         /\ download_blocklists(fetched).downloaded > 0
         /\ cache_dir' = download_blocklists(fetched).cache_dir
    /\ merging' = [merging EXCEPT !.pc = "open"]
    /\ UNCHANGED <<output_file, reloads>>

\* merge_blocklists: the files are parsed and open(output_path, 'w') truncates
\* the file the matcher reads
MergeOpen ==
    /\ merging.pc = "open"
    /\ output_file' = File(<<>>, -1)
    /\ merging' = [pc |-> "write",
                   lines |-> MergedLines(MergedDomains(cache_dir)),
                   previous |-> output_file]
    /\ UNCHANGED <<cache_dir, au_stats, reloads>>

\* merge_blocklists: f.write(...) of the header and of each domain; the
\* buffer of the file object is written out when it is full, so that some
\* more of the lines are in the file
MergeFlush ==
    /\ merging.pc = "write"
    /\ \E n \in (Len(output_file.lines) + 1)..(Len(merging.lines) - 1) :
         output_file' = File(SubSeq(merging.lines, 1, n), -1)
    /\ UNCHANGED <<cache_dir, au_stats, merging, reloads>>

\* merge_blocklists: the with block ends and the file is closed, all lines
\* written
MergeClose ==
    /\ merging.pc = "write"
    /\ output_file' = File(merging.lines, -1)
    /\ merging' = [merging EXCEPT !.pc = "idle"]
    /\ UNCHANGED <<cache_dir, au_stats, reloads>>

\* blocklist.reload(), which is load(), called by another thread; the record
\* keeps the file as it was read and the merge then writing
ReloadBlocklist ==
    /\ bl_stats.load_count < MaxLoads
    /\ load(output_file, ServerWhitelistFile)
    /\ reloads' = Append(reloads, [file |-> output_file, merging |-> merging])
    /\ UNCHANGED <<cache_dir, output_file, au_stats, merging>>

writeRest ==
    <<cacheVars, serverVars, swapVars, bu_stats, tick, started, schedVars,
      serveVars, parsed>>

NextWrite ==
    \/ MergeDownload /\ UNCHANGED <<matcherVars, writeRest>>
    \/ MergeOpen /\ UNCHANGED <<matcherVars, writeRest>>
    \/ MergeFlush /\ UNCHANGED <<matcherVars, writeRest>>
    \/ MergeClose /\ UNCHANGED <<matcherVars, writeRest>>
    \/ ReloadBlocklist /\ UNCHANGED writeRest

-----------------------------------------------------------------------------
(* A hosts-format text read by the loader of the matcher and by the parser
   of the updater *)

HostsPrefix0 == <<"0", ".", "0", ".", "0", ".", "0">>

HostsPrefix127 == <<"1", "2", "7", ".", "0", ".", "0", ".", "1">>

\* a name of 255 characters in four labels of 63
LongName == [i \in 1..255 |-> IF i % 64 = 0 THEN "." ELSE "a"]

\* the lines of the texts: hosts entries for a name, for localhost, for an
\* IPv4 address, for a name longer than 253 characters and for a wildcard, an
\* address alone, a plain name, a comment, an entry with spaces around it and
\* upper case, an entry with a third field, an empty line
HostsLines ==
    { HostsPrefix0 \o <<" ", "a", ".", "b">>,
      HostsPrefix127 \o <<" ", "b">>,
      <<"a", ".", "b">>,
      HostsPrefix127 \o <<" ", "l", "o", "c", "a", "l", "h", "o", "s", "t">>,
      HostsPrefix0 \o <<" ">> \o HostsPrefix0,
      HostsPrefix0,
      <<"#", " ", "a">>,
      HostsPrefix0 \o <<" ">> \o LongName,
      HostsPrefix0 \o <<" ", "*", ".", "a">>,
      <<" ">> \o HostsPrefix0 \o <<" ", "A", ".", "B", ".", " ">>,
      HostsPrefix0 \o <<" ", " ", "a", " ", " ", "b">>,
      <<>> }

\* content.splitlines() of the texts: up to MaxLines lines
HostsTexts == UNION {[1..n -> HostsLines] : n \in 0..MaxLines}

InitParse ==
    parsed = [called |-> FALSE, text |-> <<>>, loader |-> {}, parser |-> {}]

\* the names _load_blocklist gets from _parse_domain_line for the lines of a
\* text, and the names _parse_blocklist(text, 'hosts') returns for it
ParseHosts ==
    \E text \in HostsTexts :
        parsed' = [called |-> TRUE,
                   text |-> text,
                   loader |-> DomainsRead(File(text, -1)),
                   parser |-> _parse_blocklist_hosts(text)]

NextParse ==
    ParseHosts /\ UNCHANGED <<matcherVars, cacheVars, serverVars, swapVars,
                              updaterVars, schedVars, merging, serveVars>>

\* the datagrams a client sends, in order: two queries for one name
ReloadDatagrams ==
    << Wire(QueryMsg(1, <<Question(<<"a", ".">>, "A")>>)),
       Wire(QueryMsg(1, <<Question(<<"a", ".">>, "A")>>)) >>

\* the upstream of the server under NextReload answers every query
ReloadOutcomes(query) ==
    { [raised |-> "no",
       response |-> UpstreamAnswer(query, "NOERROR", <<RRset(1, "r1")>>)] }

tickVars == <<cache_dir, output_file, bu_stats, au_stats, tick>>

NotStarted == [start |-> -1, checked |-> -1]

\* the server with the updater running: the tasks, and the ticks of the
\* updater thread
NextReload ==
    \/ StartLoad /\ UNCHANGED <<cacheVars, serverVars, restVars>>
    \/ /\ Len(handlers) < Len(ReloadDatagrams)
       /\ ReceiveOf({ReloadDatagrams[Len(handlers) + 1]})
       /\ started' = Append(started, NotStarted)
       /\ UNCHANGED <<matcherVars, cacheVars, swapVars, tickVars, reloads, lifeVars>>
    \/ \E i \in DOMAIN handlers :
          /\ HandleQuery(i)
          /\ started' = [started EXCEPT ![i].start = Len(reloads)]
          /\ UNCHANGED <<matcherVars, cacheVars, swapVars, tickVars, reloads, lifeVars>>
    \/ \E i \in DOMAIN handlers :
          /\ HandleIsBlocked(i)
          /\ started' = [started EXCEPT ![i].checked = Len(reloads)]
          /\ UNCHANGED <<cacheVars, swapVars, tickVars, reloads, lifeVars>>
    \/ \E i \in DOMAIN handlers :
          HandleBlocked(i) /\ UNCHANGED <<matcherVars, cacheVars, restVars>>
    \/ \E i \in DOMAIN handlers : HandleCacheGet(i) /\ UNCHANGED <<matcherVars, restVars>>
    \/ \E i \in DOMAIN handlers :
          HandleCached(i) /\ UNCHANGED <<matcherVars, cacheVars, restVars>>
    \/ \E i \in DOMAIN handlers :
          HandleUpstream(i) /\ UNCHANGED <<matcherVars, cacheVars, restVars>>
    \/ \E i \in DOMAIN handlers :
          HandleUpstreamResponseOf(i, ReloadOutcomes(QueryOf(handlers[i])))
          /\ UNCHANGED <<matcherVars, cacheVars, restVars>>
    \/ \E i \in DOMAIN handlers : HandleUpstreamStore(i) /\ UNCHANGED <<matcherVars, restVars>>
    \/ \E i \in DOMAIN handlers :
          HandleSendFailure(i) /\ UNCHANGED <<matcherVars, cacheVars, restVars>>
    \/ PerformUpdate /\ UNCHANGED <<cacheVars, serverVars, swapVars, lifeVars>>

-----------------------------------------------------------------------------
(* Claims about the matcher *)

\* n is w itself or a subdomain of w
IsSubdomainOrSelf(n, w) == n = w \/ endswith(n, <<".">> \o w)

AllowRuleMatches(n) ==
    \/ n \in whitelist_domains
    \/ \E w \in whitelist_wildcards : IsSubdomainOrSelf(n, w)

BlockRuleMatches(n) ==
    \/ n \in blocked_domains
    \/ \E w \in wildcard_domains : IsSubdomainOrSelf(n, w)

\* C1: whitelist override. Whenever the normalized name of an is_blocked call
\* is in the exact allow set or is an allowed wildcard or a subdomain of one,
\* the call returns false, whatever the block sets hold.
C1_WhitelistOverride ==
    (lastCheck.called /\ AllowRuleMatches(normalize(lastCheck.domain)))
        => lastCheck.result = FALSE

\* a call for a name that an allow rule and a block rule both match
C1_Witness ==
    /\ lastCheck.called
    /\ AllowRuleMatches(normalize(lastCheck.domain))
    /\ BlockRuleMatches(normalize(lastCheck.domain))
    /\ lastCheck.result = FALSE

\* C2: wildcard label boundary. For a name that no allow rule matches and that
\* is not in the exact block set, is_blocked returns true exactly when some
\* blocked wildcard w is the name itself or the name ends with "." + w; a
\* name that only ends with the characters of w is not blocked.
C2_WildcardLabelBoundary ==
    LET n == normalize(lastCheck.domain) IN
    (lastCheck.called /\ ~AllowRuleMatches(n) /\ n \notin blocked_domains)
        => (lastCheck.result = TRUE
              <=> \E w \in wildcard_domains : IsSubdomainOrSelf(n, w))

\* a call for a name that ends with the characters of a blocked wildcard, not
\* at a label boundary, and is answered "not blocked"
C2_Witness ==
    LET n == normalize(lastCheck.domain) IN
    /\ lastCheck.called
    /\ ~AllowRuleMatches(n)
    /\ n \notin blocked_domains
    /\ \E w \in wildcard_domains :
          /\ Len(w) > 0
          /\ endswith(n, w)
          /\ ~IsSubdomainOrSelf(n, w)
    /\ lastCheck.result = FALSE

-----------------------------------------------------------------------------
(* Claims about the matcher under reload *)

\* the answer is_blocked gives for name under the four sets s: blocked when no
\* allow rule of s matches the normalized name and a block rule of s does
AnswerUnder(s, name) ==
    LET n == normalize(name) IN
    /\ ~(\/ n \in s.whitelist_domains
         \/ \E w \in s.whitelist_wildcards : IsSubdomainOrSelf(n, w))
    /\ \/ n \in s.blocked_domains
       \/ \E w \in s.wildcard_domains : IsSubdomainOrSelf(n, w)

\* C11: atomic matcher swap. Every is_blocked call of a worker thread that
\* runs while load() may be in progress returns the answer under the complete
\* sets from before that load or under the complete sets that load leaves,
\* never an answer that only the cleared or half-loaded sets give.
C11_AtomicSwap ==
    \A i \in DOMAIN calls :
        calls[i].pc = "returned" =>
            \/ calls[i].result = AnswerUnder(calls[i].pre, calls[i].domain)
            \/ calls[i].result = AnswerUnder(calls[i].post, calls[i].domain)

\* a call that came to the lock while a load was in progress and returned the
\* answer of the sets that load left, which is not the answer of the sets
\* from before it
C11_Witness ==
    \E i \in DOMAIN calls :
        /\ calls[i].pc = "returned"
        /\ calls[i].during
        /\ bl_stats.load_count = 2
        /\ calls[i].result = AnswerUnder(Sets, calls[i].domain)
        /\ calls[i].result # AnswerUnder(loading.before, calls[i].domain)

\* C13: load failure keeps the old snapshot. After a load() in which reading
\* the blocklist or the whitelist file failed with an I/O error, the four
\* sets are the sets from before that load, so that is_blocked answers as
\* before.
C13_LoadFailureKeepsOld ==
    (loading.pc = "idle" /\ loading.failed) => Sets = loading.before

-----------------------------------------------------------------------------
(* Claims about the cache *)

\* the key of the call that has just returned
LastKey == CacheKey(lastOp.domain, lastOp.qtype)

\* C3: expired entries are never returned. A response that get returns at
\* time t is the response of the entry of that key, and t is before the
\* entry's expiry; after a get that returns a miss the cache holds no entry
\* for the key, so a get on an expired entry has removed it.
C3_ExpiredNeverReturned ==
    lastOp.op = "get" =>
        IF lastOp.result # Nothing
        THEN /\ HasKey(cache, LastKey)
             /\ Lookup(cache, LastKey).response = lastOp.result[1]
             /\ now < Lookup(cache, LastKey).expires_at
        ELSE ~HasKey(cache, LastKey)

\* a get that found its entry expired: a miss, and the entry is gone
C3_Witness ==
    /\ lastOp.op = "get"
    /\ lastOp.result = Nothing
    /\ lastOp.removed = {LastKey}
    /\ cache_stats.expirations > 0

\* C4: the cache never holds more than max_size entries once a call returned.
C4_SizeBound == Len(cache) <= max_size

\* a store into a full cache: one entry evicted, the cache still full
C4_Witness ==
    /\ lastOp.op = "store"
    /\ lastOp.evicted # {}
    /\ cache_stats.evictions > 0
    /\ Len(cache) = max_size

Clamp(t, lo, hi) == IF t < lo THEN lo ELSE IF t > hi THEN hi ELSE t

\* the least TTL of the answer RRsets of a response that has answers
MinAnswerTtl(response) ==
    CHOOSE t \in {response.answer[i].ttl : i \in 1..Len(response.answer)} :
        \A i \in 1..Len(response.answer) : t <= response.answer[i].ttl

\* the TTL a store call asks for: the explicit one, else the response's
RequestedTtl(op) == IF op.ttl # Nothing THEN op.ttl[1] ELSE MinAnswerTtl(op.response)

\* C9: TTL clamping. With min_ttl <= max_ttl, the entry a store creates (from
\* an explicit TTL, or from a response with answers) is created at the time of
\* the call and lives clamp(ttl, min_ttl, max_ttl) seconds, hence no less than
\* min_ttl and no more than max_ttl.
C9_TtlClamped ==
    (/\ lastOp.op = "store"
     /\ min_ttl <= max_ttl
     /\ lastOp.ttl # Nothing \/ Len(lastOp.response.answer) > 0
     /\ HasKey(cache, LastKey))
        => LET entry == Lookup(cache, LastKey)
               life  == entry.expires_at - entry.created_at
           IN  /\ entry.created_at = now
               /\ life = Clamp(RequestedTtl(lastOp), min_ttl, max_ttl)
               /\ min_ttl <= life
               /\ life <= max_ttl

\* a store of a response with two RRsets, the lesser TTL below min_ttl: the
\* entry lives min_ttl
C9_Witness ==
    /\ lastOp.op = "store"
    /\ min_ttl < max_ttl
    /\ lastOp.ttl = Nothing
    /\ Len(lastOp.response.answer) > 1
    /\ HasKey(cache, LastKey)
    /\ RequestedTtl(lastOp) < min_ttl
    /\ Lookup(cache, LastKey).expires_at - now = min_ttl

\* the place of key k in the sequence of keys r
IndexOf(r, k) == CHOOSE i \in 1..Len(r) : r[i] = k

\* v was used less recently than every other key of held
LeastRecentlyUsed(v, held, r) ==
    \A k \in held \ {v} : IndexOf(r, v) < IndexOf(r, k)

StoreStep == cache_stats'.stores = cache_stats.stores + 1

GetHitStep == cache_stats'.hits = cache_stats.hits + 1

\* C10: LRU victim. A store that makes the size exceed max_size evicts exactly
\* one entry, the one used least recently (a use is a get hit or a store of the
\* key); otherwise it evicts nothing. The stored key holds the new response
\* and is the most recently used, the other entries are untouched. A get hit
\* makes its key the most recently used and changes no entry.
C10_LruVictim ==
    [][ /\ StoreStep =>
            LET key  == CacheKey(lastOp'.domain, lastOp'.qtype)
                held == KeySet(cache) \cup {key}
            IN  /\ IF Cardinality(held) > max_size
                   THEN \E v \in held :
                           /\ KeySet(cache') = held \ {v}
                           /\ LeastRecentlyUsed(v, held, recency')
                   ELSE KeySet(cache') = held
                /\ Len(cache') = Cardinality(KeySet(cache'))
                /\ HasKey(cache', key) =>
                       /\ cache'[Len(cache')].key = key
                       /\ Lookup(cache', key).response = lastOp'.response
                /\ \A k \in KeySet(cache') \ {key} :
                       Lookup(cache', k) = Lookup(cache, k)
                /\ Keys(cache') =
                       SelectSeq(recency', LAMBDA k : k \in KeySet(cache'))
        /\ GetHitStep =>
            LET key == CacheKey(lastOp'.domain, lastOp'.qtype)
            IN  /\ KeySet(cache') = KeySet(cache)
                /\ cache'[Len(cache')].key = key
                /\ \A k \in KeySet(cache) : Lookup(cache', k) = Lookup(cache, k)
                /\ Keys(cache') =
                       SelectSeq(recency', LAMBDA k : k \in KeySet(cache'))
      ]_vars

\* a store evicted the older entry although it was stored last: a get hit had
\* promoted the other one
C10_Witness ==
    /\ lastOp.op = "store"
    /\ Cardinality(lastOp.evicted) = 1
    /\ cache_stats.hits > 0
    /\ cache_stats.stores = 3
    /\ Len(cache) = 2
    /\ \E v \in lastOp.evicted :
          /\ v # LastKey
          /\ IndexOf(recency, v) = 1
          /\ Lookup(cache, recency[2]).created_at <= now

\* C15: a store of a response whose answer section is empty creates no
\* entry: the cache (keys, entries, order) is after the call what it was
\* before.
C15_StoreEmptyAnswerNoEntry ==
    [][(StoreStep /\ Len(lastOp'.response.answer) = 0) => cache' = cache]_vars

\* a get, a remove returns in this step
GetStep ==
    cache_stats'.hits + cache_stats'.misses = cache_stats.hits + cache_stats.misses + 1

RemoveStep == lastOp'.op = "remove" /\ now' = now

\* the key of the call that returns in this step: the name in lower case
\* without trailing dots, and the type
CallKey == <<rstrip_dot(lower(lastOp'.domain)), lastOp'.qtype>>

\* C16: get, store and remove work on the entry whose key is the name in
\* lower case without trailing dots together with the query type, whatever
\* the spelling of the name passed; an entry of the same name under another
\* type is another entry and is left as it is. Every key held is in that
\* normal form.
C16_CacheKeyNormalization ==
    /\ [](\A k \in KeySet(cache) : k[1] = rstrip_dot(lower(k[1])))
    /\ [][StoreStep =>
            /\ HasKey(cache', CallKey)
            /\ Lookup(cache', CallKey).response = lastOp'.response
            /\ \A k \in KeySet(cache') \ {CallKey} :
                  HasKey(cache, k) /\ Lookup(cache', k) = Lookup(cache, k)]_vars
    /\ [][GetStep =>
            /\ lastOp'.result =
                  IF HasKey(cache, CallKey) /\ ~is_expired(Lookup(cache, CallKey))
                  THEN Some(Lookup(cache, CallKey).response) ELSE Nothing
            /\ \A k \in KeySet(cache) \ {CallKey} :
                  HasKey(cache', k) /\ Lookup(cache', k) = Lookup(cache, k)]_vars
    /\ [][RemoveStep =>
            /\ ~HasKey(cache', CallKey)
            /\ lastOp'.result = HasKey(cache, CallKey)
            /\ KeySet(cache') = KeySet(cache) \ {CallKey}
            /\ \A k \in KeySet(cache') : Lookup(cache', k) = Lookup(cache, k)]_vars

\* a get with the name spelled 'a' returned the response stored for 'A.',
\* while the entry of the same name under type AAAA holds another response
C16_Witness ==
    /\ lastOp.op = "get"
    /\ lastOp.domain = <<"a">>
    /\ lastOp.qtype = "A"
    /\ lastOp.result # Nothing
    /\ HasKey(cache, <<(<<"a">>), "AAAA">>)
    /\ Lookup(cache, <<(<<"a">>), "AAAA">>).response # lastOp.result[1]

-----------------------------------------------------------------------------
(* Claims about the per-query handler *)

\* the tasks, by their place in handlers
Tasks == DOMAIN handlers

RECURSIVE CountedUpTo(_, _)
\* what the first n tasks have added to counter f
CountedUpTo(f, n) ==
    IF n = 0 THEN 0 ELSE handlers[n].counted[f] + CountedUpTo(f, n - 1)

\* the server's counters are the sums of what the tasks have counted
StatsAreCounted ==
    \A f \in DOMAIN stats : stats[f] = CountedUpTo(f, Len(handlers))

\* the task has handled its query on the given path
Handled(i, path) == handlers[i].pc = "done" /\ handlers[i].path = path

\* the only reply of the task
ReplyOf(i) == handlers[i].sent[1].msg

\* C5: on a cache hit the reply sent to the client has the transaction id and
\* the question of the incoming query, and the answer, authority and
\* additional sections and the flags of the cached response.
C5_CacheHitReply ==
    \A i \in Tasks :
        Handled(i, "cached") =>
            LET cached == handlers[i].response[1] IN
            /\ Len(handlers[i].sent) = 1
            /\ ReplyOf(i).id = QueryOf(handlers[i]).id
            /\ ReplyOf(i).question = QueryOf(handlers[i]).question
            /\ ReplyOf(i).answer = cached.answer
            /\ ReplyOf(i).authority = cached.authority
            /\ ReplyOf(i).additional = cached.additional
            /\ ReplyOf(i).flags = cached.flags

\* a query answered from an entry that a query with another id and another
\* spelling of the name has populated
C5_Witness ==
    \E i \in Tasks :
        /\ Handled(i, "cached")
        /\ handlers[i].response[1].id # QueryOf(handlers[i]).id
        /\ handlers[i].response[1].question # QueryOf(handlers[i]).question
        /\ Len(handlers[i].response[1].answer) > 0

\* C6: for a query whose name the matcher blocks, the reply has the query's
\* transaction id, rcode NXDOMAIN and an empty answer section; the task adds
\* exactly 1 to total_queries and to blocked_queries; the upstream resolver
\* is not contacted.
C6_BlockPath ==
    /\ StatsAreCounted
    /\ \A i \in Tasks :
          /\ handlers[i].pc = "_handle_blocked" =>
                /\ handlers[i].asked = <<>>
                /\ handlers[i].sent = <<>>
          /\ Handled(i, "blocked") =>
                /\ Len(handlers[i].sent) = 1
                /\ ReplyOf(i).id = QueryOf(handlers[i]).id
                /\ ReplyOf(i).flags.rcode = "NXDOMAIN"
                /\ ReplyOf(i).answer = <<>>
                /\ handlers[i].counted.total_queries = 1
                /\ handlers[i].counted.blocked_queries = 1
                /\ handlers[i].counted.upstream_queries = 0
                /\ handlers[i].asked = <<>>

\* a blocked query has been answered
C6_Witness ==
    \E i \in Tasks :
        /\ Handled(i, "blocked")
        /\ is_blocked(DomainOf(handlers[i]))
        /\ stats.blocked_queries = 1

\* C7: when the upstream exchange of a query that is neither blocked nor
\* cached times out or fails, one reply with the query's transaction id and
\* rcode SERVFAIL is sent, and the task adds exactly 1 to failed_queries and
\* nothing to allowed_queries.
C7_UpstreamFailure ==
    /\ StatsAreCounted
    /\ \A i \in Tasks :
          Handled(i, "upstream failed") =>
             /\ handlers[i].asked \in {<<"Timeout">>, <<"OSError">>}
             /\ Len(handlers[i].sent) = 1
             /\ ReplyOf(i).id = QueryOf(handlers[i]).id
             /\ ReplyOf(i).flags.rcode = "SERVFAIL"
             /\ handlers[i].counted.failed_queries = 1
             /\ handlers[i].counted.allowed_queries = 0

\* the upstream exchange of one query has timed out and that of another has
\* failed
C7_Witness ==
    \E i, j \in Tasks :
        /\ Handled(i, "upstream failed") /\ handlers[i].asked = <<"Timeout">>
        /\ Handled(j, "upstream failed") /\ handlers[j].asked = <<"OSError">>
        /\ stats.failed_queries = 2

\* C8: when a query that is not blocked finds an unexpired cache entry for
\* its (name, qtype), the upstream resolver is not contacted and the task
\* adds exactly 1 to cached_queries and to allowed_queries and nothing to
\* upstream_queries and failed_queries.
C8_CacheHitPath ==
    /\ StatsAreCounted
    /\ \A i \in Tasks :
          /\ handlers[i].pc = "_handle_cached" =>
                /\ handlers[i].asked = <<>>
                /\ handlers[i].counted.upstream_queries = 0
          /\ Handled(i, "cached") =>
                /\ handlers[i].asked = <<>>
                /\ handlers[i].counted.cached_queries = 1
                /\ handlers[i].counted.allowed_queries = 1
                /\ handlers[i].counted.upstream_queries = 0
                /\ handlers[i].counted.failed_queries = 0

\* a query has been answered from the cache, the only upstream exchange
\* being that of the query that populated it
C8_Witness ==
    \E i \in Tasks :
        /\ Handled(i, "cached")
        /\ ~is_blocked(DomainOf(handlers[i]))
        /\ stats.cached_queries = 1
        /\ stats.allowed_queries = 2
        /\ stats.upstream_queries = 1

\* the datagram of the task cannot be parsed
IsMalformed(i) == ~handlers[i].data.parses

\* C18: a datagram that cannot be parsed as a DNS message adds exactly 1 to
\* failed_queries (and 1 to total_queries, nothing to the other counters),
\* and no reply is sent for it.
C18_MalformedQuery ==
    /\ StatsAreCounted
    /\ \A i \in Tasks :
          IsMalformed(i) =>
             /\ handlers[i].sent = <<>>
             /\ handlers[i].asked = <<>>
             /\ handlers[i].pc \in {"start", "except", "done"}
             /\ handlers[i].pc = "done" =>
                   handlers[i].counted =
                      [NoCount EXCEPT !.total_queries = 1, !.failed_queries = 1]

\* a malformed datagram has been handled
C18_Witness ==
    \E i \in Tasks :
        /\ IsMalformed(i)
        /\ handlers[i].pc = "done"
        /\ stats.failed_queries = 1
        /\ stats.total_queries = 1

\* C19: exactly one question is required. A parsed message with no question
\* or with more than one adds 1 to failed_queries, gets no reply and is not
\* matched, cached or forwarded.
C19_ExactlyOneQuestion ==
    \A i \in Tasks :
        (/\ handlers[i].data.parses
         /\ Len(QueryOf(handlers[i]).question) # 1
         /\ handlers[i].pc = "done") =>
            /\ handlers[i].counted.failed_queries = 1
            /\ handlers[i].sent = <<>>
            /\ handlers[i].asked = <<>>
            /\ handlers[i].path = ""

\* C14: only a response with rcode NOERROR and a non-empty answer section is
\* stored by the server; a response with another rcode is forwarded to the
\* client and never cached.
C14_CacheabilityRule ==
    \A k \in 1..Len(cache) :
        /\ cache[k].entry.response.flags.rcode = "NOERROR"
        /\ Len(cache[k].entry.response.answer) > 0

\* what a get_stats snapshot shows counted in total_queries and in no result
\* class yet
Skew ==
    stats.total_queries
      - (stats.blocked_queries + stats.allowed_queries + stats.failed_queries)

\* C30: no snapshot of the counters shows more than one query counted in
\* total_queries and not yet in blocked_queries, allowed_queries or
\* failed_queries, whatever the number of tasks running.
C30_StatsSkewAtMostOne == Skew <= 1

\* C36: whenever no task is in flight, total_queries is the sum of
\* blocked_queries, allowed_queries and failed_queries: every datagram is
\* counted in total and in exactly one result class.
C36_CounterConservation ==
    (\A i \in Tasks : handlers[i].pc = "done") => Skew = 0

\* C34: a send to the client that fails is not followed by another send for
\* the same query: a failed sendto is the last sendto of its task.
C34_SendErrorNotRetried ==
    \A i \in Tasks : \A k \in DOMAIN handlers[i].sent :
        ~handlers[i].sent[k].ok => k = Len(handlers[i].sent)

\* C37: for each datagram received at most one reply reaches the client: at
\* most one sendto of its task succeeds, on every path.
C37_AtMostOneReply ==
    \A i \in Tasks :
        Cardinality({k \in DOMAIN handlers[i].sent : handlers[i].sent[k].ok}) <= 1

-----------------------------------------------------------------------------
(* Claims about the updater and the reload *)

\* the merge before reload k has added name n: n is among the merged domains
\* and the matcher did not block it before the reload
Adds(k, n) ==
    /\ reloads[k].merged
    /\ n \in reloads[k].domains
    /\ ~AnswerUnder(reloads[k].before, n)

\* an allow rule of the sets s matches the normalized name n
AllowedUnder(s, n) ==
    \/ n \in s.whitelist_domains
    \/ \E w \in s.whitelist_wildcards : IsSubdomainOrSelf(n, w)

\* the name task i asks for, as the matcher sees it
AskedName(i) == normalize(DomainOf(handlers[i]))

MatcherAt(k) ==
    IF k >= 1 THEN reloads[k].after
    ELSE IF Len(reloads) >= 1 THEN reloads[1].before ELSE Sets

\* is_blocked has run for task i and found its name blocked
BlockedAtCheck(i) ==
    /\ started[i].checked >= 0
    /\ AnswerUnder(MatcherAt(started[i].checked), AskedName(i))

\* the tasks that have done their one cache lookup: found not blocked and
\* past self.cache.get
LookedUp ==
    {i \in Tasks : /\ started[i].checked >= 0
                   /\ ~BlockedAtCheck(i)
                   /\ handlers[i].pc # "cache_get"}

\* C38: blocking takes precedence over the cache. A query for a name the
\* matcher blocks when the query is checked is answered NXDOMAIN by one reply
\* and is never looked up in the cache nor sent upstream, also when the cache
\* holds an unexpired entry for its name and type from before the reload that
\* added the name; a query handled from start to end with no reload in
\* between, for a name the matcher blocks, ends as blocked; the cache's
\* lookups and stores are those of the queries found not blocked, one lookup
\* each and one store for each that was answered upstream.
C38_BlockingBeforeCache ==
    /\ \A i \in Tasks :
         BlockedAtCheck(i) =>
            /\ handlers[i].pc \in {"_handle_blocked", "done"}
            /\ handlers[i].response = Nothing
            /\ handlers[i].asked = <<>>
            /\ handlers[i].counted.cached_queries = 0
            /\ handlers[i].counted.upstream_queries = 0
            /\ handlers[i].pc = "done" =>
                  /\ handlers[i].path = "blocked"
                  /\ Len(handlers[i].sent) = 1
                  /\ ReplyOf(i).flags.rcode = "NXDOMAIN"
                  /\ ReplyOf(i).answer = <<>>
    /\ \A i \in Tasks :
         (/\ handlers[i].pc = "done"
          /\ started[i].start = Len(reloads)
          /\ AnswerUnder(Sets, AskedName(i)))
         => handlers[i].path = "blocked"
    /\ cache_stats.hits + cache_stats.misses = Cardinality(LookedUp)
    /\ cache_stats.stores =
          Cardinality({i \in LookedUp : Handled(i, "upstream")})

\* a query for 'a' went upstream and its answer is in the cache, unexpired;
\* a reload then added 'a', and a later query for 'a' was answered NXDOMAIN
C38_Witness ==
    \E k \in 1..Len(reloads) : \E i, j \in Tasks :
        /\ Handled(j, "upstream")
        /\ started[j].checked = k - 1
        /\ AskedName(j) = AskedName(i)
        /\ QtypeOf(handlers[j]) = QtypeOf(handlers[i])
        /\ Adds(k, AskedName(i))
        /\ started[i].start >= k
        /\ BlockedAtCheck(i)
        /\ Handled(i, "blocked")
        /\ ReplyOf(i).flags.rcode = "NXDOMAIN"
        /\ get_result(DomainOf(handlers[i]), QtypeOf(handlers[i])) # Nothing
        /\ cache_stats.hits + cache_stats.misses = 1

\* C20: zero successful fetches. When every fetch of a tick has failed, the
\* merge is skipped and the tick is counted in failed_updates, not in
\* successful_updates.
C20_ZeroFetchesTickFails ==
    (tick.counted # "none" /\ tick.downloaded = 0)
        => /\ ~tick.merged
           /\ tick.counted = "failed_updates"
           /\ au_stats.successful_updates + au_stats.failed_updates
                 = au_stats.total_updates

\* the names of the merged file
ArtifactNames == _parse_blocklist(output_file.lines)

\* the names of the sources fetched in the latest tick
FetchedNames == UNION {_parse_blocklist(Content(sid)) : sid \in tick.fetched}

\* C21: when the fetch of some sources of a tick fails and that of at least one
\* succeeds, the merge runs and the merged file, once written, holds the names
\* parsed from the sources fetched in that tick and nothing from a source
\* whose fetch failed in that tick.
C21_PartialFetchMerge ==
    (tick.counted # "none" /\ tick.fetched # {} /\ tick.fetched # SourceIds) =>
        /\ tick.merged
        /\ tick.success => ArtifactNames = FetchedNames

\* C22: in every update tick the reload hook is called if and only if the
\* merge of that tick ran and succeeded.
C22_HookIffMerged ==
    tick.counted # "none" => (tick.hook <=> (tick.merged /\ tick.success))

\* C27: a load of the matcher that runs while merge_blocklists is writing
\* the merged file reads the whole file of before the merge or the whole new
\* file, never an empty or partly written one.
C27_ArtifactReplacedAtomically ==
    \A k \in DOMAIN reloads :
        reloads[k].merging.pc = "write" =>
            reloads[k].file.lines \in
                {reloads[k].merging.previous.lines, reloads[k].merging.lines}

-----------------------------------------------------------------------------
(* Claims about start(), the receive loop and stop() *)

C25_NoErrorAbortsServer ==
    (main.bound /\ ~main.signalled) => main.pc \in {"recvfrom", "submit"}

C25_Witness ==
    /\ main.pc = "recvfrom"
    /\ ~main.signalled
    /\ \E i \in DOMAIN handlers :
          /\ handlers[i].pc = "done"
          /\ serve.log[i].errors > 0
          /\ serve.log[i].failed > 0

\* C26: if start() has redirected the DNS of the host, then whichever way
\* start() ends restore_original_dns has been called; and once a restore has
\* succeeded dns_changed is false and no later stop() restores again.
C26_DnsRestoredOnStop ==
    /\ (main.pc = "ended" /\ dns.redirected) => Len(dns.restores) >= 1
    /\ \A k \in DOMAIN dns.restores :
          dns.restores[k] => (k = Len(dns.restores) /\ ~dns._dns_changed)

\* C31: start() redirects the DNS of the host only after the socket is
\* bound: whenever the host has been redirected the bind has succeeded.
C31_RedirectAfterBind == dns.redirected => main.bound

\* C32: the restore of the host's DNS is the last step of stop(): whenever
\* restore_original_dns has been called, the pool has been shut down and the
\* socket closed.
C32_RestoreIsLast == Len(dns.restores) >= 1 => main.closed

\* C33: stop() closes the socket only when every task handed to the pool has
\* run to its end, so no task is left to send its reply on a closed socket.
C33_ShutdownDrainsWorkers ==
    main.closed => \A i \in DOMAIN handlers : handlers[i].pc = "done"

\* stop() was called with tasks queued or running, and has closed the socket
C33_Witness ==
    /\ main.closed
    /\ main.pending
    /\ Len(handlers) >= 1

-----------------------------------------------------------------------------
(* Claims about the threads of the updater *)

\* thread t was blocked in the interval wait when stop() set the event
SignalledInWait(t) == t \in DOMAIN au_threads /\ au_threads[t].notified

\* thread t has ended
Exited(t) == t \in DOMAIN au_threads /\ au_threads[t].pc = "exited"

\* C23: when stop() sets the stop event while the loop is blocked in its
\* interval wait, the wait returns, the loop thread ends, and the thread
\* starts no update after the signal.
C23_CooperativeStop ==
    /\ [](\A t \in DOMAIN au_threads :
            au_threads[t].notified => au_threads[t].pc \in {"waiting", "exited"})
    /\ \A t \in 1..MaxThreads :
          SignalledInWait(t) ~> Exited(t)

C23_Witness ==
    \E t \in DOMAIN au_threads :
        /\ au_threads[t].kind = "loop"
        /\ au_threads[t].notified
        /\ au_threads[t].pc = "exited"

\* the threads whose update has fetched and has not finished
Updating == {t \in DOMAIN au_threads : au_threads[t].pc \in {"merge", "notify"}}

\* C28: at most one update is between its fetch and the end of its reload
\* phase at any time, so the phases of two updates never interleave.
C28_OneUpdateAtATime == Cardinality(Updating) <= 1

\* the loop threads that have not ended
LoopThreads ==
    {t \in DOMAIN au_threads :
        au_threads[t].kind = "loop" /\ au_threads[t].pc # "exited"}

\* C29: after any sequence of start() and stop() calls at most one loop
\* thread is alive.
C29_SingleLoopThread == Cardinality(LoopThreads) <= 1

\* C39: once stop() has returned, and until start() is called again, no loop
\* thread is inside an update: none is fetching or merging, and none is about
\* to invoke the reload hook.
C39_StoppedMeansNoUpdate ==
    (stop_event /\ ~au_running /\ au_threads[1].pc = "idle")
    => \A t \in DOMAIN au_threads :
          au_threads[t].kind = "loop" => au_threads[t].pc \notin UpdatePhases

-----------------------------------------------------------------------------
(* Claims about the two parsers *)

\* C35: for every hosts-format text the names the loader of the matcher
\* accepts line by line are the names _parse_blocklist(text, 'hosts') returns.
C35_LoaderParserAgree == parsed.called => parsed.loader = parsed.parser

-----------------------------------------------------------------------------
(* Claims about the gauge of the block sets *)

\* C40: after any sequence of load, add_domain and remove_domain calls
\* stats['total_blocks'] is the number of names in blocked_domains plus the
\* number of names in wildcard_domains.
C40_TotalBlocksGauge ==
    bl_stats.total_blocks =
        Cardinality(blocked_domains) + Cardinality(wildcard_domains)

-----------------------------------------------------------------------------
(* Specifications *)

\* the matcher, beside a cache that is not used
InitMatcherOnly ==
    /\ InitMatcher
    /\ InitCacheWith({ServerCacheConfig})
    /\ InitServer
    /\ InitSwap
    /\ InitUpdater
    /\ InitScheduler
    /\ InitWrite
    /\ InitServe
    /\ InitParse

Init ==
    /\ InitMatcher
    /\ InitCacheWith({ServerCacheConfig})
    /\ InitServer
    /\ InitSwap
    /\ InitUpdater
    /\ InitScheduler
    /\ InitWrite
    /\ InitServe
    /\ InitParse

Spec == Init /\ [][Next]_vars

SpecMatcher == InitMatcherOnly /\ [][NextMatcher]_vars

\* the cache, beside a matcher that is not used
InitCacheOnly ==
    /\ InitMatcher
    /\ InitCacheWith(CacheConfigs)
    /\ InitServer
    /\ InitSwap
    /\ InitUpdater
    /\ InitScheduler
    /\ InitWrite
    /\ InitServe
    /\ InitParse

SpecCache == InitCacheOnly /\ [][NextCache]_vars

InitCacheTtl ==
    /\ InitMatcher
    /\ InitCacheWith(TtlConfigs)
    /\ InitServer
    /\ InitSwap
    /\ InitUpdater
    /\ InitScheduler
    /\ InitWrite
    /\ InitServe
    /\ InitParse

SpecCacheTtl == InitCacheTtl /\ [][NextCacheTtl]_vars

\* the cache called with several spellings of one name
InitCacheKeys ==
    /\ InitMatcher
    /\ InitCacheWith({ServerCacheConfig})
    /\ InitServer
    /\ InitSwap
    /\ InitUpdater
    /\ InitScheduler
    /\ InitWrite
    /\ InitServe
    /\ InitParse

SpecCacheKeys == InitCacheKeys /\ [][NextCacheKeys]_vars

\* the matcher under reload
InitSwapOnly ==
    /\ InitMatcher
    /\ InitCacheWith({ServerCacheConfig})
    /\ InitServer
    /\ InitSwap
    /\ InitUpdater
    /\ InitScheduler
    /\ InitWrite
    /\ InitServe
    /\ InitParse

SpecSwap == InitSwapOnly /\ [][NextSwap]_vars

SpecQuestions == Init /\ [][NextQuestions]_vars

SpecReload == Init /\ [][NextReload]_vars

SpecUpstream == Init /\ [][NextUpstream]_vars

SpecUpdater == Init /\ [][NextUpdater]_vars

SpecScheduler == Init /\ [][NextScheduler]_vars

SpecWrite == Init /\ [][NextWrite]_vars

SpecServe == Init /\ [][NextServe]_vars

InitStart ==
    /\ InitMatcher
    /\ InitCacheWith({ServerCacheConfig})
    /\ InitServer
    /\ InitSwap
    /\ InitUpdater
    /\ InitScheduler
    /\ InitWrite
    /\ InitServeWith(TRUE)
    /\ InitParse

SpecStart == InitStart /\ [][NextStart]_vars

SpecLoader == InitMatcherOnly /\ [][NextLoader]_vars

SpecParse == Init /\ [][NextParse]_vars

SpecNullLimit == Init /\ [][NextNullLimit]_vars

\* a thread that can run does run: the blocked wait of a loop thread returns
SpecLoop ==
    /\ Init
    /\ [][NextLoop]_vars
    /\ \A t \in 1..MaxThreads :
          WF_vars(t \in DOMAIN au_threads /\ LoopWake(t) /\ UNCHANGED schedRest)


=============================================================================
